---- MODULE Spec2Model ----
(***************************************************************************)
(* Verification model of the crypto-lake core: the event bus               *)
(* (api/event_bus.py), the rotating raw writer and the ingestor's          *)
(* reconnect loop (collector/collector.py), the bar aggregator             *)
(* (transformer/transformer.py) and the orchestrator with its macro        *)
(* fetcher (tools/orchestrator.py, tools/macro_minute.py).                 *)
(*                                                                         *)
(* Several specifications share the module:                                *)
(*   SpecBus          EventBus with a publisher thread and consumer reads  *)
(*   SpecWriter       one RotatingJSONLWriter on a directory tree          *)
(*   SpecCollector    run_collector / _consume_ws with its writers and bus *)
(*   SpecTask         run_collector as a task that can be cancelled        *)
(*   SpecTransformer  transform_symbol_day on the raw files of one day     *)
(*   SpecFetcher      _run_macro_loop / _fetch_macro_data                  *)
(*   SpecOrchestrator the orchestrator's threads and health cells          *)
(*   SpecSchedule     the orchestrator's periodic components               *)
(*   SpecAdapter      the exchange adapters' frames through _consume_ws    *)
(*   SpecBackfill     BinanceBackfiller._fetch_klines                      *)
(*   SpecCompactor    run_compactor on one day partition                   *)
(* Each leaves the variables of the parts it does not exercise unchanged.  *)
(***************************************************************************)
EXTENDS Integers, Sequences, FiniteSets, TLC

VARIABLES
    \* ---- EventBus (api/event_bus.py) ----
    subscribers,   \* _subscribers: channel -> list of queue ids
    queues,        \* content of every asyncio.Queue created by subscribe
    nextQ,         \* identity of the next queue subscribe() will create
    published,     \* _published
    dropped,       \* _dropped
    maxsize,       \* _max_queue_size
    \* history of the bus (not program state)
    expected,      \* expected[q] = events published to q's channel while q was registered
    readLog,       \* readLog[q] = events the consumer has read from q
    discarded,     \* discarded[q] = events publish() removed from q or failed to add
    qdrops,        \* qdrops[q] = increments of _dropped made on behalf of q
    regChan,       \* channel q was created for
    droppedAtSub,  \* _dropped when q was subscribed
    winMarked,     \* whether the observer has started its observation window
    winStart,      \* _published at the start of the observation window
    winDropped     \* _dropped at the start of the observation window

VARIABLES
    \* ---- RotatingJSONLWriter (collector/collector.py) ----
    w,             \* the writer object of symbol S1
    interval_sec,  \* write_interval_sec
    dirs,          \* dirs[d]: the .jsonl files in the directory of day d: part_001 ..
                   \* part_<old> left by earlier runs, and the parts in new
    clock,         \* time.time(), whole seconds
    \* history of the writer (not program state)
    appended,      \* the lines appended so far: file (date, idx), write time, closes before it
    openedAt,      \* time at which the file the writer holds was opened
    closes,        \* number of close() calls that closed a file
    lastW          \* the last write_obj call: the writer before it and its outcome

VARIABLES
    \* ---- run_collector / _consume_ws (collector/collector.py) ----
    pc,              \* where run_collector is: "setup" before the reconnect loop,
                     \* "connect" in websockets.connect, "recv" in ws.recv() of
                     \* a session, "sleep" in an except clause's sleep, "return"
                     \* when the frame loop has ended, "exit" when the reconnect
                     \* loop has ended, "done" returned, "fatal" raised during
                     \* set-up, "cancelled" left by CancelledError
    event_bus,       \* the event_bus argument: "EventBus" or "None"
    stop_event,      \* stop_event.is_set()
    backoff,         \* seconds
    initial_backoff,
    max_backoff,
    jitter_factor,   \* reconnect_jitter, in tenths of a second
    \* history of the ingestor (not program state)
    attempt,         \* failures since the last successful connect
    failures,        \* failures since the start
    streaming,       \* the current session has received a frame
    lastDelay,       \* the last reconnect delay: backoff and jitter slept, the handler
                     \* that slept, what raised, attempt index, session had streamed
    decoded,         \* events the adapter decoded, in order
    handed,          \* events passed to a writer's write_obj, in order
    pubLog,          \* event_bus.publish calls, in order
    faults,          \* disk faults so far
    failedOpen,      \* the file whose open() failed in the last write_obj call
    lastFrame        \* what the last ws.recv() of the current session gave

VARIABLES
    \* ---- transform_symbol_day (transformer/transformer.py) ----
    raw,             \* the raw files of the symbol-day in file-name order, each
                     \* a sequence of lines
    parquet,         \* the partition files under the symbol root
    runs,            \* transform_symbol_day calls so far
    \* history of the aggregator (not program state)
    loaded,          \* the records _load_jsonl_files gave the last run
    out,             \* the bars of the last run
    returned         \* what the last run returned

VARIABLES
    \* ---- Orchestrator (tools/orchestrator.py) ----
    orch,            \* the main thread: "running" until stop() has set the
                     \* orchestrator's stop_event, then "stopping" (joining),
                     \* "joined", "marked" (every status set to stopped),
                     \* "stopped" (stop() returned); "killed" when the process
                     \* was terminated by a signal
    started,         \* the threads start() has started, in order
    ws,              \* the ws-collector thread: "unstarted", "init", "polling"
                     \* (task created), "failed" (status set to error), "exited"
    health_data,     \* the status cells: collector, macro_minute (status,
                     \* last_error, last_run_rows_written, last_run_end),
                     \* transformer (status, last_error, last_run_end)
    snapshot,        \* the payload of the heartbeat on disk
    fetcher,         \* the macro-fetcher thread: "unstarted", "startup",
                     \* "running" (in _fetch_macro_data), "idle" (between
                     \* runs), "exited"
    ticker_i,        \* position of the running fetch in macro_tickers
    lookback_days,   \* the lookback of the running fetch
    total_rows,      \* total_rows of the running fetch
    stored,          \* stored[k][ts]: how many stored rows key k has for ts
    upstream,        \* upstream[k]: the timestamps yfinance has for key k
    tr,              \* the transformer thread: "unstarted", "wait" (sleeping
                     \* before a run), "run" (in _run_transformer), "exited"
    naps,            \* seconds the transformer thread has slept since the
                     \* start or the last run
    hm,              \* the health-monitor thread: "unstarted", "loop",
                     \* "writing" (payload built, write_heartbeat pending),
                     \* "exited"
    pending,         \* the payload the health monitor has built
    report,          \* the overall status in the Markdown report on disk
    \* history of the orchestrator (not program state)
    fetches,         \* fetch runs started so far
    failed,          \* the keys that failed in the last fetch run
    processed,       \* the keys the last fetch run has dealt with
    snapAfterFail,   \* the snapshot on disk was built after the ingestor's task
                     \* had exited with an error and before stop()
    snapSeen,        \* what held when the snapshot on disk was built: the
                     \* transformer status, and whether stop() built it
    alive            \* the threads that were alive when stop() returned

VARIABLES
    \* ---- exchange adapters and _consume_ws (collector/exchanges, collector.py) ----
    ws_frame,        \* the frame ws.recv() returned
    rec,             \* what adapter.parse_event made of it
    consumed,        \* _consume_ws has handled the frame
    written,         \* the records handed to a writer for the frame
    sent             \* the channels event_bus.publish was called with for it

VARIABLES
    \* ---- BinanceBackfiller._fetch_klines (tools/backfill_binance.py) ----
    max_retries,     \* the max_retries argument
    kline_attempt,   \* the loop variable attempt: requests made so far
    bf,              \* "request" in the loop, "returned", "raised"
    result,          \* the returned value: "data", "None"; "none" before
    \* history of the call (not program state)
    log              \* per request: the response and the time.sleep after it

VARIABLES
    \* ---- run_compactor (storage/compactor.py) ----
    partition,       \* the files of the day partition in the order written
    daily,           \* the rows of the daily file
    \* history of the compactor (not program state)
    readCount        \* how many files the partition had at the last run

trVars == <<raw, parquet, runs, loaded, out, returned>>

orVars == <<orch, started, ws, health_data, snapshot, fetcher, ticker_i,
            lookback_days, total_rows, stored, upstream, tr, naps, hm, pending,
            report, fetches, failed, processed, snapAfterFail, snapSeen, alive>>

colVars == <<pc, event_bus, stop_event, backoff, initial_backoff, max_backoff,
             jitter_factor, attempt, failures, streaming, lastDelay, decoded,
             handed, pubLog, faults, failedOpen, lastFrame>>

wrVars == <<w, interval_sec, dirs, clock, appended, openedAt, closes, lastW>>

busVars == <<subscribers, queues, nextQ, published, dropped, maxsize,
             expected, readLog, discarded, qdrops, regChan, droppedAtSub,
             winMarked, winStart, winDropped>>

adVars == <<ws_frame, rec, consumed, written, sent>>

bfVars == <<max_retries, kline_attempt, bf, result, log>>

cpVars == <<partition, daily, readCount>>

vars == <<busVars, wrVars, colVars, trVars, orVars, adVars, bfVars, cpVars>>

----------------------------------------------------------------------------
(* Bounds of the bus model *)
MaxCap == 2
MaxPublish == 3

Channels == {"trade:S1", "all"}
QueueIds == {1, 2}
NoChan == "none"

Max(a, b) == IF a >= b THEN a ELSE b
Min(a, b) == IF a <= b THEN a ELSE b

RECURSIVE SumOver(_, _)
SumOver(f, S) ==
    IF S = {} THEN 0
    ELSE LET x == CHOOSE y \in S : TRUE IN f[x] + SumOver(f, S \ {x})

\* The last k elements of s
LastN(s, k) == SubSeq(s, Len(s) - k + 1, Len(s))

RECURSIVE SeqFilter(_, _)
SeqFilter(s, S) ==
    IF s = <<>> THEN <<>>
    ELSE IF Head(s) \in S THEN <<Head(s)>> \o SeqFilter(Tail(s), S)
         ELSE SeqFilter(Tail(s), S)

Range(s) == {s[i] : i \in 1..Len(s)}

\* ---- asyncio.Queue -------------------------------------------------------
\* Queue.full(): a maxsize <= 0 means an unbounded queue
QFull(items) == IF maxsize <= 0 THEN FALSE ELSE Len(items) >= maxsize

\* (mutant of QPut: the new event is put at the head of the deque)
C3_QPut_Front(items, e) == <<e>> \o items

\* Queue._put on the deque: append on the right
QPut(items, e) == Append(items, e)

\* Queue._get on the deque: popleft
QGetItem(items) == Head(items)
QGetRest(items) == Tail(items)

\* list.remove(q): removes the first occurrence, ValueError (swallowed) if absent
ListRemove(lst, q) ==
    IF q \notin Range(lst) THEN lst
    ELSE LET i == CHOOSE j \in 1..Len(lst) :
                     lst[j] = q /\ \A k \in 1..(j-1) : lst[k] # q
         IN SubSeq(lst, 1, i-1) \o SubSeq(lst, i+1, Len(lst))

\* (mutant of SubscribersOf: the channel is ignored, every list is delivered to)
C2_SubscribersOf_AnyChannel(ch) == subscribers["trade:S1"] \o subscribers["all"]

\* self._subscribers.get(channel, [])
SubscribersOf(ch) == subscribers[ch]

\* (mutant of PublishTo: a full queue keeps its content and the new event is
\* the one dropped)
C1_PublishTo_DropNewest(st, q, e, k) ==
    IF ~QFull(st.queues[q])
    THEN [st EXCEPT !.queues[q] = QPut(st.queues[q], e)]
    ELSE [st EXCEPT !.discarded[q] = Append(@, e),
                    !.qdrops[q] = @ + 1,
                    !.dropped = @ + 1]

\* One pass of the loop body of publish() for queue q and event e. The consumer
\* thread reads without the bus lock: k is the number of events it takes from q
\* between the QueueFull of the first put_nowait and the get_nowait that drops
\* the oldest (k = 0: no read falls in between).
\* st = [queues, readLog, discarded, qdrops, dropped]
PublishTo(st, q, e, k) ==
    LET items == st.queues[q] IN
    IF ~QFull(items)
    THEN [st EXCEPT !.queues[q] = QPut(items, e)]
    ELSE LET kk    == Min(k, Len(items))
             taken == SubSeq(items, 1, kk)
             left  == SubSeq(items, kk + 1, Len(items))
             \* q.get_nowait(): QueueEmpty is swallowed
             gone  == IF left = <<>> THEN <<>> ELSE <<QGetItem(left)>>
             rest  == IF left = <<>> THEN <<>> ELSE QGetRest(left)
             \* q.put_nowait(event): QueueFull is swallowed
             lost  == IF QFull(rest) THEN <<e>> ELSE <<>>
             after == IF QFull(rest) THEN rest ELSE QPut(rest, e)
         IN [queues    |-> [st.queues EXCEPT ![q] = after],
             readLog   |-> [st.readLog EXCEPT ![q] = @ \o taken],
             discarded |-> [st.discarded EXCEPT ![q] = @ \o gone \o lost],
             qdrops    |-> [st.qdrops EXCEPT ![q] = @ + 1],
             dropped   |-> st.dropped + 1]

\* for q in self._subscribers.get(channel, []): ...
RECURSIVE PublishLoop(_, _, _, _)
PublishLoop(st, lst, e, ks) ==
    IF lst = <<>> THEN st
    ELSE PublishLoop(PublishTo(st, Head(lst), e, ks[Head(lst)]), Tail(lst), e, ks)

\* q is registered on the channel it was created for
Registered(q) == regChan[q] \in Channels /\ q \in Range(subscribers[regChan[q]])

\* publish(channel, event), the whole call under the lock
Publish(ch, ks) ==
    /\ published < MaxPublish
    /\ \A q \in QueueIds : q \notin Range(SubscribersOf(ch)) => ks[q] = 0
    /\ published' = published + 1
    /\ expected' = [q \in QueueIds |->
                      IF Registered(q) /\ regChan[q] = ch
                      THEN Append(expected[q], published + 1) ELSE expected[q]]
    /\ LET st == PublishLoop([queues |-> queues, readLog |-> readLog,
                              discarded |-> discarded, qdrops |-> qdrops,
                              dropped |-> dropped],
                             SubscribersOf(ch), published + 1, ks)
       IN /\ queues' = st.queues
          /\ readLog' = st.readLog
          /\ discarded' = st.discarded
          /\ qdrops' = st.qdrops
          /\ dropped' = st.dropped
    /\ UNCHANGED <<subscribers, nextQ, maxsize, regChan, droppedAtSub,
                   winMarked, winStart, winDropped>>

InitBus ==
    /\ subscribers = [c \in Channels |-> <<>>]
    /\ queues = [q \in QueueIds |-> <<>>]
    /\ nextQ = 1
    /\ published = 0
    /\ dropped = 0
    /\ maxsize \in 1..MaxCap
    /\ expected = [q \in QueueIds |-> <<>>]
    /\ readLog = [q \in QueueIds |-> <<>>]
    /\ discarded = [q \in QueueIds |-> <<>>]
    /\ qdrops = [q \in QueueIds |-> 0]
    /\ regChan = [q \in QueueIds |-> NoChan]
    /\ droppedAtSub = [q \in QueueIds |-> 0]
    /\ winMarked = FALSE
    /\ winStart = 0
    /\ winDropped = 0

\* subscribe(channel): a new queue, registered under the lock
Subscribe(ch) ==
    /\ nextQ \in QueueIds
    /\ subscribers' = [subscribers EXCEPT ![ch] = Append(@, nextQ)]
    /\ nextQ' = nextQ + 1
    /\ regChan' = [regChan EXCEPT ![nextQ] = ch]
    /\ droppedAtSub' = [droppedAtSub EXCEPT ![nextQ] = dropped]
    /\ UNCHANGED <<queues, published, dropped, maxsize, expected, readLog,
                   discarded, qdrops, winMarked, winStart, winDropped>>

\* unsubscribe(channel, q), under the lock
Unsubscribe(ch, q) ==
    /\ q < nextQ
    /\ subscribers' = [subscribers EXCEPT ![ch] = ListRemove(@, q)]
    /\ UNCHANGED <<queues, nextQ, published, dropped, maxsize, expected,
                   readLog, discarded, qdrops, regChan, droppedAtSub,
                   winMarked, winStart, winDropped>>

\* the consumer's q.get_nowait() (routes_ws.stream)
ConsumerGet(q) ==
    /\ q < nextQ
    /\ queues[q] # <<>>
    /\ readLog' = [readLog EXCEPT ![q] = Append(@, QGetItem(queues[q]))]
    /\ queues' = [queues EXCEPT ![q] = QGetRest(@)]
    /\ UNCHANGED <<subscribers, nextQ, published, dropped, maxsize, expected,
                   discarded, qdrops, regChan, droppedAtSub,
                   winMarked, winStart, winDropped>>

\* an observer starts its observation window between two bus calls
MarkWindow ==
    /\ ~winMarked
    /\ winMarked' = TRUE
    /\ winStart' = published
    /\ winDropped' = dropped
    /\ UNCHANGED <<subscribers, queues, nextQ, published, dropped, maxsize,
                   expected, readLog, discarded, qdrops, regChan, droppedAtSub>>



----------------------------------------------------------------------------
(* The rotating raw writer *)

MaxWrites == 3
Horizon == 7
StartBack == 6
ManyParts == 999
SecondsPerDay == 86400

StartEpoch == SecondsPerDay - StartBack
Intervals == {1, 7, 60}
PreExisting == {0, 2, ManyParts}

\* get_local_date_str_utc(epoch): the UTC date, as a day number
DateOf(epoch) == epoch \div SecondsPerDay
Days == {DateOf(StartEpoch), DateOf(StartEpoch) + 1}

NoFile == [date |-> -1, idx |-> 0, open |-> FALSE]
IsFile(fp) == fp.date # -1

\* f"{i:03d}": the decimal digits of i, padded with zeros to at least three
RECURSIVE Digits(_)
Digits(i) == IF i < 10 THEN <<i>> ELSE Append(Digits(i \div 10), i % 10)
PartDigits(i) ==
    LET d == Digits(i) IN
    IF Len(d) >= 3 THEN d
    ELSE IF Len(d) = 2 THEN <<0>> \o d ELSE <<0, 0>> \o d

\* int(name.split("_")[1])
RECURSIVE ParseInt(_)
ParseInt(d) == IF d = <<>> THEN 0
               ELSE 10 * ParseInt(SubSeq(d, 1, Len(d) - 1)) + d[Len(d)]

\* the part indices of the files in a directory
FilesIn(dir) == (1..dir.old) \cup dir.new

\* _next_part_index(dirpath): one more than the largest part number parsed from
\* the file names (of the files of earlier runs, part_<old> has the largest)
NextPartIndex(dir) ==
    LET names == {PartDigits(i) : i \in dir.new \cup ({dir.old} \ {0})}
        nums  == {ParseInt(n) : n \in names}
    IN IF nums = {} THEN 1
       ELSE (CHOOSE m \in nums : \A n \in nums : n <= m) + 1

\* the rotation boundary set at line 92-93
NextRotation(now, interval) == (now \div interval) * interval + interval

\* RotatingJSONLWriter(...) as constructed at time now
NewWriter(now) ==
    [current_date |-> DateOf(now), part_index |-> 0,
     next_rotation_epoch |-> 0, fp |-> NoFile]

\* what a call leaves: the writer, the directories, the exception raised
Outcome(wr, ds, exc) == [w |-> wr, dirs |-> ds, raised |-> exc]

\* lines 72-75: a new date becomes the current date and resets the part index
DateRollover(wr, now) ==
    IF DateOf(now) # wr.current_date
    THEN [wr EXCEPT !.current_date = DateOf(now), !.part_index = 0]
    ELSE wr

\* lines 78-79: a part index of 0 is replaced by the directory's next index
AssignPartIndex(wr, ds) ==
    IF wr.part_index = 0
    THEN [wr EXCEPT !.part_index = NextPartIndex(ds[wr.current_date])]
    ELSE wr

\* lines 84-89: the old file object is flushed and closed, and stays referenced
CloseOld(wr) == IF IsFile(wr.fp) THEN [wr EXCEPT !.fp.open = FALSE] ELSE wr

\* lines 90-93: open(path, "a") creates the file unless it exists; the
\* rotation boundary is set
OpenPath(wr, ds, interval, now) ==
    Outcome([wr EXCEPT !.fp = [date |-> wr.current_date, idx |-> wr.part_index,
                               open |-> TRUE],
                       !.next_rotation_epoch = NextRotation(now, interval)],
            [ds EXCEPT ![wr.current_date].new =
                IF wr.part_index \in FilesIn(ds[wr.current_date])
                THEN @ ELSE @ \cup {wr.part_index}],
            "none")

\* _open_new_file(now_epoch). fail is "none", "mkdir" (ensure_dir raises) or
\* "open" (open raises).
OpenNewFile(wr, ds, interval, now, fail) ==
    IF fail = "mkdir" THEN Outcome(DateRollover(wr, now), ds, "OSError")
    ELSE IF fail = "open"
    THEN Outcome(CloseOld(AssignPartIndex(DateRollover(wr, now), ds)), ds, "OSError")
    ELSE OpenPath(CloseOld(AssignPartIndex(DateRollover(wr, now), ds)),
                  ds, interval, now)

\* (mutant of RotateIfNeeded: the boundary itself does not rotate yet)
C5_RotateIfNeeded_Strict(wr, ds, interval, now, fail) ==
    IF ~IsFile(wr.fp) THEN OpenNewFile(wr, ds, interval, now, fail)
    ELSE IF now > wr.next_rotation_epoch
    THEN OpenNewFile([wr EXCEPT !.part_index = @ + 1], ds, interval, now, fail)
    ELSE Outcome(wr, ds, "none")

\* _rotate_if_needed(now_epoch)
RotateIfNeeded(wr, ds, interval, now, fail) ==
    IF ~IsFile(wr.fp) THEN OpenNewFile(wr, ds, interval, now, fail)
    ELSE IF now >= wr.next_rotation_epoch
    THEN OpenNewFile([wr EXCEPT !.part_index = @ + 1], ds, interval, now, fail)
    ELSE Outcome(wr, ds, "none")

\* lines 107-109 of write_obj, after _rotate_if_needed left r. appendOk: whether
\* fp.write succeeds. The result adds the file the line was appended to
\* (NoFile when none was).
AppendLine(r, appendOk) ==
    [w |-> r.w, dirs |-> r.dirs,
     raised |-> IF r.raised # "none" THEN r.raised
                ELSE IF ~IsFile(r.w.fp) THEN "none"
                ELSE IF ~r.w.fp.open THEN "ValueError"   \* write on a closed file
                ELSE IF ~appendOk THEN "OSError"
                ELSE "none",
     file |-> IF r.raised = "none" /\ IsFile(r.w.fp) /\ r.w.fp.open /\ appendOk
              THEN r.w.fp ELSE NoFile]

\* write_obj(obj, now_epoch)
WriteObj(wr, ds, interval, now, fail, appendOk) ==
    AppendLine(RotateIfNeeded(wr, ds, interval, now, fail), appendOk)

\* close()
CloseWriter(wr) == IF IsFile(wr.fp) THEN [wr EXCEPT !.fp = NoFile] ELSE wr

NoWrite == [res |-> "none", t |-> 0, before |-> NewWriter(0), scan |-> 0,
            file |-> NoFile]

InitWriter ==
    /\ clock = StartEpoch
    /\ w = NewWriter(StartEpoch)
    /\ interval_sec \in Intervals
    /\ \E k \in PreExisting :
          dirs = [d \in Days |-> [old |-> IF d = DateOf(StartEpoch) THEN k ELSE 0,
                                   new |-> {}]]
    /\ appended = <<>>
    /\ openedAt = 0
    /\ closes = 0
    /\ lastW = NoWrite

\* the writer and its history after a write_obj call at time now that left r
RecordWrite(r, now) ==
    /\ w' = r.w
    /\ dirs' = r.dirs
    /\ appended' = IF IsFile(r.file)
                   THEN Append(appended, [date |-> r.file.date, idx |-> r.file.idx,
                                          t |-> now, c |-> closes])
                   ELSE appended
    /\ openedAt' = IF r.raised = "none" /\ r.w.fp # w.fp THEN now ELSE openedAt
    /\ lastW' = [res |-> IF IsFile(r.file) THEN "appended" ELSE r.raised,
                 t |-> now, before |-> w,
                 scan |-> NextPartIndex(dirs[DateOf(now)]),
                 file |-> r.file]
    /\ UNCHANGED <<interval_sec, closes>>

\* one write_obj call at time now
WriteStep(now, fail, appendOk) ==
    RecordWrite(WriteObj(w, dirs, interval_sec, now, fail, appendOk), now)

\* writer.write_obj(rec) on a healthy disk
Write(now) ==
    /\ Len(appended) < MaxWrites
    /\ WriteStep(now, "none", TRUE)
    /\ clock' = now

\* writer.close()
Close ==
    /\ IsFile(w.fp)
    /\ w' = CloseWriter(w)
    /\ closes' = closes + 1
    /\ UNCHANGED <<interval_sec, dirs, clock, appended, openedAt, lastW>>

\* the process is restarted: a new writer object for the same directory tree
Restart ==
    /\ w # NewWriter(clock)
    /\ w' = NewWriter(clock)
    /\ UNCHANGED <<interval_sec, dirs, clock, appended, openedAt, closes, lastW>>

Times == {t \in clock..(StartEpoch + Horizon) : TRUE}

BusIdle == UNCHANGED busVars
WriterIdle == UNCHANGED wrVars
CollectorIdle == UNCHANGED colVars
TransformerIdle == UNCHANGED trVars
OrchestratorIdle == UNCHANGED orVars
AdapterIdle == UNCHANGED adVars
BackfillIdle == UNCHANGED bfVars
CompactorIdle == UNCHANGED cpVars
ToolsIdle == AdapterIdle /\ BackfillIdle /\ CompactorIdle
BatchIdle == TransformerIdle /\ OrchestratorIdle /\ ToolsIdle
CoreIdle ==
    BusIdle /\ WriterIdle /\ CollectorIdle /\ TransformerIdle /\ OrchestratorIdle

NextWriter ==
    \/ \E now \in Times : Write(now) /\ BusIdle /\ CollectorIdle /\ BatchIdle
    \/ Close /\ BusIdle /\ CollectorIdle /\ BatchIdle
    \/ Restart /\ BusIdle /\ CollectorIdle /\ BatchIdle

----------------------------------------------------------------------------
(* The ingestor: run_collector and _consume_ws *)

MaxFailures == 3
MaxEvents == 2
MaxFaults == 1
ErrorFloor == 5

\* reconnect_backoff, max_reconnect_backoff (seconds), reconnect_jitter (tenths)
InitialBackoffs == {2}
MaxBackoffs == {7}
JitterFactors == {0, 1}

\* symbols the exchange sends events for; S1 has a writer, S2 has none
Symbols == {"S1", "S2"}
WriterSymbols == {"S1"}

\* exceptions caught by the first except clause of the reconnect loop
NetworkErrors == {"TimeoutError", "ConnectionClosed", "ConnectionError", "OSError"}
\* any other Exception
OtherErrors == {"InvalidStatusCode", "RuntimeError", "ValueError"}
\* what websockets.connect and ws.recv raise
ConnectErrors == {"TimeoutError", "ConnectionError", "OSError", "InvalidStatusCode"}
RecvErrors == {"ConnectionClosed", "RuntimeError"}

\* which except clause of run_collector catches an exception
Handler(kind) == IF kind \in NetworkErrors THEN "network" ELSE "other"

RECURSIVE Pow2(_)
Pow2(i) == IF i = 0 THEN 1 ELSE 2 * Pow2(i - 1)

\* (mutant of BackoffAfterNetwork: the backoff grows by one second)
C9_BackoffAfterNetwork_Linear(b) == Min(max_backoff, b + 1)

\* backoff = min(max_backoff, backoff * 2)
BackoffAfterNetwork(b) == Min(max_backoff, b * 2)

\* backoff = min(max_backoff, max(5, backoff * 2))
BackoffAfterError(b) == Min(max_backoff, Max(ErrorFloor, b * 2))

\* random.uniform(0, jitter_factor) in the network clause; none in the other
Jitters(kind) == IF Handler(kind) = "network" THEN 0..jitter_factor ELSE {0}

\* f"{rec.get('stream', 'unknown')}:{sym}"
ChannelOf(kind, sym) == kind \o ":" \o sym

NoDelay == [base |-> 0, jitter |-> 0, handler |-> "none", cause |-> "none",
            i |-> 0, streamed |-> FALSE]

InitCollector ==
    /\ pc = "setup"
    /\ event_bus \in {"None", "EventBus"}
    /\ stop_event = FALSE
    /\ initial_backoff \in InitialBackoffs
    /\ max_backoff \in MaxBackoffs
    /\ jitter_factor \in JitterFactors
    /\ backoff = initial_backoff
    /\ attempt = 0
    /\ failures = 0
    /\ streaming = FALSE
    /\ lastDelay = NoDelay
    /\ decoded = <<>>
    /\ handed = <<>>
    /\ pubLog = <<>>
    /\ faults = 0
    /\ failedOpen = NoFile
    /\ lastFrame = "none"

\* run_collector up to its reconnect loop: the exchange entry, the adapter, the
\* writers (no file is opened yet) and the backoff settings. An unknown
\* exchange or a malformed setting raises and the coroutine ends.
Setup(ok) ==
    /\ pc = "setup"
    /\ pc' = IF ok THEN "connect" ELSE "fatal"
    /\ UNCHANGED <<event_bus, stop_event, backoff, initial_backoff, max_backoff,
                   jitter_factor, attempt, failures, streaming, lastDelay,
                   decoded, handed, pubLog, faults, failedOpen, lastFrame>>
    /\ WriterIdle /\ BusIdle

\* the test of the frame loop after a frame has been dealt with
FrameLoop == IF stop_event THEN "return" ELSE "recv"

\* an except clause of the reconnect loop is entered and starts its sleep
Reconnect(kind, cause, j) ==
    /\ failures < MaxFailures
    /\ j \in Jitters(kind)
    /\ lastDelay' = [base |-> backoff, jitter |-> j, handler |-> Handler(kind),
                     cause |-> cause, i |-> attempt, streamed |-> streaming]
    /\ attempt' = attempt + 1
    /\ failures' = failures + 1
    /\ streaming' = FALSE
    /\ backoff' = backoff
    /\ pc' = "sleep"

\* (mutant of Wake: the reconnect loop goes on whatever stop_event says)
C12_Wake_IgnoresStop ==
    /\ pc = "sleep"
    /\ backoff' = IF lastDelay.handler = "network"
                  THEN BackoffAfterNetwork(backoff)
                  ELSE BackoffAfterError(backoff)
    /\ clock' = clock + lastDelay.base
    /\ pc' = "connect"
    /\ lastFrame' = "none"
    /\ UNCHANGED <<event_bus, stop_event, initial_backoff, max_backoff,
                   jitter_factor, attempt, failures, streaming, lastDelay,
                   decoded, handed, pubLog, faults, failedOpen>>
    /\ UNCHANGED <<w, interval_sec, dirs, appended, openedAt, closes, lastW>>
    /\ BusIdle

\* the sleep of an except clause ends: the backoff is raised and the reconnect
\* loop tests stop_event
Wake ==
    /\ pc = "sleep"
    /\ backoff' = IF lastDelay.handler = "network"
                  THEN BackoffAfterNetwork(backoff)
                  ELSE BackoffAfterError(backoff)
    /\ clock' = clock + lastDelay.base
    /\ pc' = IF stop_event THEN "exit" ELSE "connect"
    /\ lastFrame' = "none"
    /\ UNCHANGED <<event_bus, stop_event, initial_backoff, max_backoff,
                   jitter_factor, attempt, failures, streaming, lastDelay,
                   decoded, handed, pubLog, faults, failedOpen>>
    /\ UNCHANGED <<w, interval_sec, dirs, appended, openedAt, closes, lastW>>
    /\ BusIdle

\* websockets.connect and the subscription succeed; the frame loop is entered
ConnectOk ==
    /\ pc = "connect"
    /\ pc' = FrameLoop
    /\ attempt' = 0
    /\ streaming' = FALSE
    /\ lastFrame' = "none"
    /\ UNCHANGED <<event_bus, stop_event, backoff, initial_backoff, max_backoff,
                   jitter_factor, failures, lastDelay, decoded, handed, pubLog,
                   faults, failedOpen>>
    /\ WriterIdle /\ BusIdle

\* websockets.connect or the subscription raises
ConnectFail(kind, j) ==
    /\ pc = "connect"
    /\ Reconnect(kind, "connect", j)
    /\ lastFrame' = "none"
    /\ UNCHANGED <<event_bus, stop_event, initial_backoff, max_backoff,
                   jitter_factor, decoded, handed, pubLog, faults, failedOpen>>
    /\ WriterIdle /\ BusIdle

\* (mutant of RecvSkip: a frame that cannot be used ends the session)
C11_RecvSkip_EndsSession(frame) ==
    /\ pc = "recv"
    /\ streaming' = (streaming \/ frame # "timeout")
    /\ lastFrame' = IF frame = "timeout" THEN lastFrame ELSE frame
    /\ pc' = IF frame = "timeout" THEN FrameLoop ELSE "return"
    /\ UNCHANGED <<event_bus, stop_event, backoff, initial_backoff, max_backoff,
                   jitter_factor, attempt, failures, lastDelay, decoded, handed,
                   pubLog, faults, failedOpen>>
    /\ WriterIdle /\ BusIdle

\* ws.recv() times out, or yields a frame that is no JSON ("nonjson") or that
\* the adapter decodes to no event ("undecodable"): continue
RecvSkip(frame) ==
    /\ pc = "recv"
    /\ streaming' = (streaming \/ frame # "timeout")
    /\ lastFrame' = IF frame = "timeout" THEN lastFrame ELSE frame
    /\ pc' = FrameLoop
    /\ UNCHANGED <<event_bus, stop_event, backoff, initial_backoff, max_backoff,
                   jitter_factor, attempt, failures, lastDelay, decoded, handed,
                   pubLog, faults, failedOpen>>
    /\ WriterIdle /\ BusIdle

\* ws.recv() raises: the session is lost
RecvError(kind, j) ==
    /\ pc = "recv"
    /\ Reconnect(kind, "recv", j)
    /\ lastFrame' = "error"
    /\ UNCHANGED <<event_bus, stop_event, initial_backoff, max_backoff,
                   jitter_factor, decoded, handed, pubLog, faults, failedOpen>>
    /\ WriterIdle /\ BusIdle

\* the two publish calls of _consume_ws; no queue is subscribed while the
\* ingestor is studied, so publish() only counts
PublishBoth(sym, e) ==
    IF event_bus = "None"
    THEN /\ pubLog' = pubLog
         /\ BusIdle
    ELSE /\ pubLog' = pubLog \o <<[ch |-> ChannelOf("trade", sym), e |-> e],
                                  [ch |-> "all", e |-> e]>>
         /\ published' = published + 2
         /\ UNCHANGED <<subscribers, queues, nextQ, dropped, maxsize, expected,
                        readLog, discarded, qdrops, regChan, droppedAtSub,
                        winMarked, winStart, winDropped>>

\* a frame decodes to an event of a symbol that has no writer
RecvEventNoWriter(sym) ==
    /\ pc = "recv"
    /\ Len(decoded) < MaxEvents
    /\ sym \notin WriterSymbols
    /\ decoded' = Append(decoded, [e |-> Len(decoded) + 1, sym |-> sym])
    /\ streaming' = TRUE
    /\ lastFrame' = "event"
    /\ pc' = FrameLoop
    /\ PublishBoth(sym, Len(decoded) + 1)
    /\ UNCHANGED <<event_bus, stop_event, backoff, initial_backoff, max_backoff,
                   jitter_factor, attempt, failures, lastDelay, handed, faults,
                   failedOpen>>
    /\ WriterIdle

\* the frame loop after write_obj(rec) left r: the publish calls, or the
\* exception of write_obj leaves _consume_ws and is caught by the reconnect loop
AfterWrite(r, sym, now, fail, appendOk, j) ==
    /\ (fail # "none" \/ ~appendOk) => (faults < MaxFaults /\ r.raised # "none")
    /\ faults' = IF fail # "none" \/ ~appendOk THEN faults + 1 ELSE faults
    /\ decoded' = Append(decoded, [e |-> Len(decoded) + 1, sym |-> sym])
    /\ handed' = Append(handed, [e |-> Len(decoded) + 1, sym |-> sym])
    /\ RecordWrite(r, now)
    /\ clock' = now
    /\ lastFrame' = "event"
    /\ failedOpen' =
          IF fail = "open" /\ r.raised # "none"
          THEN [date |-> r.w.current_date, idx |-> r.w.part_index, open |-> TRUE]
          ELSE NoFile
    /\ IF r.raised # "none"
       THEN /\ Reconnect(r.raised, "write", j)
            /\ pubLog' = pubLog
            /\ BusIdle
       ELSE /\ j = 0
            /\ streaming' = TRUE
            /\ pc' = FrameLoop
            /\ PublishBoth(sym, Len(decoded) + 1)
            /\ UNCHANGED <<backoff, attempt, failures, lastDelay>>
    /\ UNCHANGED <<event_bus, stop_event, initial_backoff, max_backoff,
                   jitter_factor>>

\* a frame decodes to an event of a symbol that has a writer. fail and appendOk
\* are the disk's answers to write_obj.
RecvEvent(sym, now, fail, appendOk, j) ==
    /\ pc = "recv"
    /\ Len(decoded) < MaxEvents
    /\ sym \in WriterSymbols
    /\ fail # "none" => appendOk
    /\ AfterWrite(WriteObj(w, dirs, interval_sec, now, fail, appendOk),
                  sym, now, fail, appendOk, j)

\* _graceful_shutdown: the signal handler sets stop_event while run_collector
\* waits in websockets.connect, ws.recv() or a sleep
Shutdown ==
    /\ pc \in {"connect", "recv", "sleep"}
    /\ ~stop_event
    /\ stop_event' = TRUE
    /\ UNCHANGED <<pc, event_bus, backoff, initial_backoff, max_backoff,
                   jitter_factor, attempt, failures, streaming, lastDelay,
                   decoded, handed, pubLog, faults, failedOpen, lastFrame>>
    /\ WriterIdle /\ BusIdle

\* finally: every writer is closed
CloseWriters ==
    /\ w' = CloseWriter(w)
    /\ closes' = IF IsFile(w.fp) THEN closes + 1 ELSE closes
    /\ UNCHANGED <<interval_sec, dirs, clock, appended, openedAt, lastW>>

\* _consume_ws returns because stop_event is set: the else clause resets the
\* backoff, the reconnect loop ends at its test, the finally clause runs and
\* run_collector returns
ReturnOnStop ==
    /\ pc = "return"
    /\ backoff' = initial_backoff
    /\ pc' = "done"
    /\ CloseWriters
    /\ UNCHANGED <<event_bus, stop_event, initial_backoff, max_backoff,
                   jitter_factor, attempt, failures, streaming, lastDelay,
                   decoded, handed, pubLog, faults, failedOpen, lastFrame>>
    /\ BusIdle

\* the reconnect loop has ended at its test after a sleep: the finally clause
\* runs and run_collector returns
Finally ==
    /\ pc = "exit"
    /\ pc' = "done"
    /\ CloseWriters
    /\ UNCHANGED <<event_bus, stop_event, backoff, initial_backoff, max_backoff,
                   jitter_factor, attempt, failures, streaming, lastDelay,
                   decoded, handed, pubLog, faults, failedOpen, lastFrame>>
    /\ BusIdle

\* collector_task.cancel(): CancelledError is raised where run_collector
\* waits; no except clause of the loop catches it and the finally clause runs
Cancel ==
    /\ pc \in {"connect", "recv", "sleep"}
    /\ pc' = "cancelled"
    /\ CloseWriters
    /\ UNCHANGED <<event_bus, stop_event, backoff, initial_backoff, max_backoff,
                   jitter_factor, attempt, failures, streaming, lastDelay,
                   decoded, handed, pubLog, faults, failedOpen, lastFrame>>
    /\ BusIdle

\* the steps run_collector takes by itself
Progress ==
    \/ \E ok \in BOOLEAN : Setup(ok) /\ BatchIdle
    \/ ConnectOk /\ BatchIdle
    \/ \E kind \in ConnectErrors, j \in 0..jitter_factor :
          ConnectFail(kind, j) /\ BatchIdle
    \/ \E frame \in {"timeout", "nonjson", "undecodable"} :
          RecvSkip(frame) /\ BatchIdle
    \/ \E kind \in RecvErrors, j \in 0..jitter_factor :
          RecvError(kind, j) /\ BatchIdle
    \/ \E sym \in Symbols : RecvEventNoWriter(sym) /\ BatchIdle
    \/ \E sym \in Symbols, now \in {clock, clock + 1},
          fail \in {"none", "mkdir", "open"}, appendOk \in BOOLEAN,
          j \in 0..jitter_factor :
          RecvEvent(sym, now, fail, appendOk, j) /\ BatchIdle
    \/ Wake /\ BatchIdle
    \/ ReturnOnStop /\ BatchIdle
    \/ Finally /\ BatchIdle

\* the ingestor run by itself: stopped by a signal
NextCollector ==
    \/ Progress
    \/ Shutdown /\ BatchIdle

\* the ingestor run as a task: stopped by a signal or cancelled
NextTask ==
    \/ Progress
    \/ Shutdown /\ BatchIdle
    \/ Cancel /\ BatchIdle

----------------------------------------------------------------------------
(* The bar aggregator: transformer/transformer.py *)

MaxRuns == 2
ResampleIntervalSec == 1
MsPerSecond == 1000

\* a missing value of a float column (pandas NaN); prices are positive
NaN == -1

\* the events the exchange sent, in arrival order: time in ms since midnight
\* UTC of the day, prices in thousandths, quantities in units. Events 2, 3, 4
\* and 5 are the input of test_aggregate_bars_1s_basic.
Pool == <<
    [ts_event |-> -800, stream |-> "bookTicker", price |-> NaN, qty |-> NaN,
     bid |-> 1040, ask |-> 1160],
    [ts_event |-> 0, stream |-> "trade", price |-> 1000, qty |-> 1,
     bid |-> NaN, ask |-> NaN],
    [ts_event |-> 500, stream |-> "trade", price |-> 1200, qty |-> 2,
     bid |-> NaN, ask |-> NaN],
    [ts_event |-> 900, stream |-> "trade", price |-> 1100, qty |-> 1,
     bid |-> NaN, ask |-> NaN],
    [ts_event |-> 1200, stream |-> "bookTicker", price |-> NaN, qty |-> NaN,
     bid |-> 1050, ask |-> 1150],
    [ts_event |-> 3000, stream |-> "trade", price |-> 1300, qty |-> 3,
     bid |-> NaN, ask |-> NaN],
    [ts_event |-> 4400, stream |-> "bookTicker", price |-> NaN, qty |-> NaN,
     bid |-> 1250, ask |-> 1350] >>

PoolIds == 1..Len(Pool)

\* a line of a raw file: a complete JSON object, or a line cut short by a crash
Truncated == [ok |-> FALSE, ev |-> 0]
LineOf(i) == [ok |-> TRUE, ev |-> i]

\* [json.loads(line) for line in f if line.strip()]: one line that does not
\* parse raises out of the comprehension, and the except clause around the
\* file logs and goes on to the next file
ParseFile(f) ==
    IF \E i \in 1..Len(f) : ~f[i].ok THEN <<>>
    ELSE [i \in 1..Len(f) |-> Pool[f[i].ev]]

\* _load_jsonl_files: the records of every file, in file-name order
RECURSIVE LoadJsonlFiles(_)
LoadJsonlFiles(files) ==
    IF files = <<>> THEN <<>>
    ELSE ParseFile(Head(files)) \o LoadJsonlFiles(Tail(files))

\* df["sec"] = df["ts"].dt.floor(f"{second}s"), in seconds
SecOf(e) ==
    (e.ts_event \div (MsPerSecond * ResampleIntervalSec)) * ResampleIntervalSec

\* sort_values("ts") of the rows of one stream (no two events of the pool
\* share a timestamp)
RECURSIVE SortByTs(_)
SortByTs(S) ==
    IF S = {} THEN <<>>
    ELSE LET m == CHOOSE e \in S : \A o \in S : e.ts_event <= o.ts_event
         IN <<m>> \o SortByTs(S \ {m})

StreamOf(df, stream) == SortByTs({e \in Range(df) : e.stream = stream})

\* the rows of a sorted frame that fall in second s
InSec(evs, s) == SeqFilter(evs, {e \in Range(evs) : SecOf(e) = s})

SecsOf(evs) == {SecOf(evs[i]) : i \in 1..Len(evs)}
MaxOf(S) == CHOOSE x \in S : \A y \in S : y <= x
MinOf(S) == CHOOSE x \in S : \A y \in S : x <= y
Last(s) == s[Len(s)]

\* some second at or before s has a row of evs
HasPrior(evs, s) == \E x \in SecsOf(evs) : x <= s

\* the latest second at or before s that has a row of evs
LastSecWith(evs, s) == MaxOf({x \in SecsOf(evs) : x <= s})

HasRow(evs, s) == s \in SecsOf(evs)

\* groupby("sec").agg(...) of the trades of one second
PriceSet(g) == {g[i].price : i \in 1..Len(g)}
VolumeBase(g) == SumOver([i \in 1..Len(g) |-> g[i].qty], 1..Len(g))
\* (mutant of VolumeQuote: the prices are summed without their quantities)
C15_VolumeQuote_Unweighted(g) ==
    SumOver([i \in 1..Len(g) |-> g[i].price], 1..Len(g))

VolumeQuote(g) ==
    SumOver([i \in 1..Len(g) |-> g[i].price * g[i].qty], 1..Len(g))

\* a quotient, kept exact as numerator and denominator
Ratio(n, d) == [n |-> n, d |-> d]

\* (volume_quote / volume_base).where(volume_base > 0, close)
Vwap(g) ==
    IF VolumeBase(g) > 0 THEN Ratio(VolumeQuote(g), VolumeBase(g))
    ELSE Ratio(Last(g).price, 1)

\* bars_df["close"].ffill(): the close of the latest second with a trade
FilledClose(T, s) ==
    IF ~HasPrior(T, s) THEN NaN
    ELSE Last(InSec(T, LastSecWith(T, s))).price

\* the bar of a second that has trades: the aggregate of its trades
TradeBar(g) ==
    [open |-> g[1].price, high |-> MaxOf(PriceSet(g)),
     low |-> MinOf(PriceSet(g)), close |-> Last(g).price,
     volume_base |-> VolumeBase(g), volume_quote |-> VolumeQuote(g),
     trade_count |-> Len(g), vwap |-> Vwap(g)]

\* the bar of a second without trades after reindex and the fills: close is
\* forward-filled, open/high/low and vwap take the filled close, the volumes
\* and the count become 0
FilledBar(c) ==
    [open |-> c, high |-> c, low |-> c, close |-> c,
     volume_base |-> 0, volume_quote |-> 0, trade_count |-> 0,
     vwap |-> Ratio(c, 1)]

\* the last quote of the latest second at or before s that has quotes: the
\* forward-filled bid, ask and spread (no quote so far: missing)
NoQuote == [bid |-> NaN, ask |-> NaN, spread |-> NaN]

\* (ask - bid).where(ask.notna() & bid.notna())
Spread(q) == IF q.bid # NaN /\ q.ask # NaN THEN q.ask - q.bid ELSE NaN

FilledQuote(Q, s) ==
    IF ~HasPrior(Q, s) THEN NoQuote
    ELSE [bid |-> Last(InSec(Q, LastSecWith(Q, s))).bid,
          ask |-> Last(InSec(Q, LastSecWith(Q, s))).ask,
          spread |-> Spread(Last(InSec(Q, LastSecWith(Q, s))))]

\* one row of the output of _aggregate_bars_1s
BarAt(T, Q, s) ==
    [window_start |-> s] @@
    (IF HasRow(T, s) THEN TradeBar(InSec(T, s))
                     ELSE FilledBar(FilledClose(T, s))) @@
    FilledQuote(Q, s)

\* pd.date_range(df["sec"].min(), df["sec"].max(), freq=f"{second}s")
FullIndex(df) ==
    [i \in 1..((MaxOf(SecsOf(df)) - MinOf(SecsOf(df))) \div ResampleIntervalSec + 1)
        |-> MinOf(SecsOf(df)) + (i - 1) * ResampleIntervalSec]

\* _aggregate_bars_1s
AggregateBars1s(df) ==
    IF df = <<>> THEN <<>>
    ELSE [i \in 1..Len(FullIndex(df)) |->
             BarAt(StreamOf(df, "trade"), StreamOf(df, "bookTicker"),
                   FullIndex(df)[i])]

\* the days (year, month, day) the bars fall on
DaysOf(bars) == {DateOf(bars[i].window_start) : i \in 1..Len(bars)}

\* (mutant of WriteParquetPartitioned: the partition directory is replaced)
C17_WriteParquetPartitioned_Replace(files, bars, id) ==
    {f \in files : f.day \notin DaysOf(bars)} \cup
    {[name |-> id, day |-> d,
      rows |-> SeqFilter(bars, {b \in Range(bars) : DateOf(b.window_start) = d})]
        : d \in DaysOf(bars)}

\* _write_parquet_partitioned: write_to_dataset adds to each partition
\* directory one file with a name of its own
WriteParquetPartitioned(files, bars, id) ==
    files \cup
    {[name |-> id, day |-> d,
      rows |-> SeqFilter(bars, {b \in Range(bars) : DateOf(b.window_start) = d})]
        : d \in DaysOf(bars)}

\* what transform_symbol_day returns
Returned(files, df, bars) ==
    IF files = <<>> \/ df = <<>> \/ bars = <<>> THEN "None" ELSE "root"

InitTransformer ==
    /\ raw = <<>>
    /\ parquet = {}
    /\ runs = 0
    /\ loaded = <<>>
    /\ out = <<>>
    /\ returned = "none"

\* the raw files of a symbol-day: the lines of the chosen events, the first k
\* in one part file and the rest in the next; bad = 1 or 2 leaves a truncated
\* line at the end of the first or the second file
RECURSIVE LinesOf(_)
LinesOf(S) ==
    IF S = {} THEN <<>>
    ELSE <<LineOf(MinOf(S))>> \o LinesOf(S \ {MinOf(S)})

Layout(lines, k, bad) ==
    SeqFilter(<<SubSeq(lines, 1, k) \o (IF bad = 1 THEN <<Truncated>> ELSE <<>>),
                SubSeq(lines, k + 1, Len(lines))
                    \o (IF bad = 2 THEN <<Truncated>> ELSE <<>>)>>,
              {SubSeq(lines, 1, k) \o (IF bad = 1 THEN <<Truncated>> ELSE <<>>),
               SubSeq(lines, k + 1, Len(lines))
                    \o (IF bad = 2 THEN <<Truncated>> ELSE <<>>)} \ {<<>>})

RawInputs ==
    UNION {{Layout(LinesOf(S), k, bad) : k \in 0..Cardinality(S), bad \in 0..2}
              : S \in SUBSET PoolIds}

InitRawDay ==
    /\ raw \in RawInputs
    /\ parquet = {}
    /\ runs = 0
    /\ loaded = <<>>
    /\ out = <<>>
    /\ returned = "none"

\* transform_symbol_day on the raw files of the day
TransformSymbolDay ==
    /\ runs < MaxRuns
    /\ runs' = runs + 1
    /\ loaded' = LoadJsonlFiles(raw)
    /\ out' = AggregateBars1s(LoadJsonlFiles(raw))
    /\ returned' = Returned(raw, LoadJsonlFiles(raw),
                            AggregateBars1s(LoadJsonlFiles(raw)))
    /\ parquet' = WriteParquetPartitioned(parquet,
                      AggregateBars1s(LoadJsonlFiles(raw)), runs + 1)
    /\ raw' = raw

----------------------------------------------------------------------------
(* The orchestrator: tools/orchestrator.py, tools/macro_minute.py *)

MaxFetches == 2
Today == 10
MacroLookbackStartupDays == 7
MacroRuntimeLookbackDays == 1
ExistingMargin == 1
WeekendGap == 3
TransformIntervalSec == 2

\* the exchanges of config["exchanges"], and the one the orchestrator is
\* given as exchange_name
ConfiguredExchanges == {"binance", "coinbase"}
ExchangeName == "binance"

\* macro_tickers
Tickers == <<"K1", "K2">>
TickerSet == Range(Tickers)

\* timestamps, in days: a bar of today, and a bar of the last trading day
\* before a weekend, which period="1d" still returns
Timestamps == {Today - WeekendGap, Today}

\* the threads in the order start() creates them (configuration: macro
\* tickers given, both transform intervals positive)
StartOrder == <<"ws-collector", "macro-fetcher", "transformer",
                "macro-transformer", "health-monitor">>

NoError == [ticker |-> "none", what |-> "none"]
NoSnapshot == [collector |-> "none", macro_minute |-> "none"]
NoPayload == [collector |-> "none", macro_minute |-> "none",
              transformer |-> "none", afterFail |-> FALSE]

\* health_data as __init__ leaves it
InitHealth ==
    [collector |-> "stopped",
     macro_minute |-> [status |-> "idle", last_error |-> NoError,
                       last_run_rows_written |-> 0, last_run_end |-> 0],
     transformer |-> [status |-> "idle", last_error |-> NoError,
                      last_run_end |-> 0]]

\* the orchestrator as __init__ leaves it, whatever threads exist
Constructed ==
    /\ orch = "running"
    /\ health_data = InitHealth
    /\ snapshot = NoSnapshot
    /\ report = "none"
    /\ pending = NoPayload
    /\ ticker_i = 0
    /\ lookback_days = 0
    /\ total_rows = 0
    /\ naps = 0
    /\ stored = [k \in TickerSet |-> [ts \in Timestamps |-> 0]]
    /\ upstream \in [TickerSet -> SUBSET Timestamps]
    /\ fetches = 0
    /\ failed = {}
    /\ processed = {}
    /\ snapAfterFail = FALSE
    /\ snapSeen = [transformer |-> "none", final |-> FALSE]
    /\ alive = {}

\* before start()
InitOrchestrator ==
    /\ Constructed
    /\ started = <<>>
    /\ ws = "unstarted" /\ fetcher = "unstarted"
    /\ tr = "unstarted" /\ hm = "unstarted"

\* an orchestrator that is never started
IdleOrchestrator ==
    /\ InitOrchestrator
    /\ upstream = [k \in TickerSet |-> {}]

\* the process has not been terminated
Up == orch # "killed"

\* the orchestrator's stop_event is set
StopSet == orch \in {"stopping", "joined", "marked", "stopped"}

SetStatus(cell, status) ==
    IF cell = "collector"
    THEN [health_data EXCEPT !.collector = status]
    ELSE [health_data EXCEPT ![cell].status = status]
SetMacro(field, value) == [health_data EXCEPT !["macro_minute"][field] = value]

\* ---- start() -------------------------------------------------------------------

\* the next thread start() creates and starts
NextThread == StartOrder[Len(started) + 1]

\* one Thread(...).start() of start(); the loop of the macro transformer is
\* not followed
StartThread ==
    /\ orch = "running"
    /\ Len(started) < Len(StartOrder)
    /\ started' = Append(started, NextThread)
    /\ ws' = IF NextThread = "ws-collector" THEN "init" ELSE ws
    /\ fetcher' = IF NextThread = "macro-fetcher" THEN "startup" ELSE fetcher
    /\ tr' = IF NextThread = "transformer" THEN "wait" ELSE tr
    /\ hm' = IF NextThread = "health-monitor" THEN "loop" ELSE hm
    /\ UNCHANGED <<orch, health_data, snapshot, ticker_i, lookback_days,
                   total_rows, stored, upstream, naps, pending, report, fetches,
                   failed, processed, snapAfterFail, snapSeen, alive>>

\* ---- the ws-collector thread ---------------------------------------------

\* _run_ws_collector up to the polling loop: status running, the task created
WsStart ==
    /\ ws = "init"
    /\ ws' = "polling"
    /\ health_data' = SetStatus("collector", "running")
    /\ UNCHANGED <<orch, started, snapshot, fetcher, ticker_i, lookback_days,
                   total_rows, stored, upstream, tr, naps, hm, pending, report,
                   fetches, failed, processed, snapAfterFail, snapSeen, alive>>

\* the polling loop finds the task done with an exception: status error,
\* run_with_stop_check returns (a stop during the same poll ends in the outer
\* except clause with the same status)
WsTaskFailed ==
    /\ ws = "polling"
    /\ pc = "fatal"
    /\ ws' = "failed"
    /\ health_data' = SetStatus("collector", "error")
    /\ UNCHANGED <<orch, started, snapshot, fetcher, ticker_i, lookback_days,
                   total_rows, stored, upstream, tr, naps, hm, pending, report,
                   fetches, failed, processed, snapAfterFail, snapSeen, alive>>

\* the finally clause of _run_ws_collector, after the task failed, was
\* cancelled or returned: status stopped
WsExit ==
    /\ ws = "failed" \/ (ws = "polling" /\ pc \in {"cancelled", "done"})
    /\ ws' = "exited"
    /\ health_data' = SetStatus("collector", "stopped")
    /\ UNCHANGED <<orch, started, snapshot, fetcher, ticker_i, lookback_days,
                   total_rows, stored, upstream, tr, naps, hm, pending, report,
                   fetches, failed, processed, snapAfterFail, snapSeen, alive>>

\* the polling loop sees the orchestrator's stop_event: collector_task.cancel()
WsCancel ==
    /\ ws = "polling"
    /\ StopSet
    /\ Cancel
    /\ UNCHANGED orVars

\* run_collector's set-up inside the task
WsSetup(ok) ==
    /\ ws = "polling"
    /\ Setup(ok)
    /\ UNCHANGED orVars

\* ---- the health monitor -----------------------------------------------------

\* _write_markdown_report: the overall status of the report
OverallStatus(collector_status, macro_status) ==
    IF collector_status = "running" /\ macro_status \in {"idle", "running"}
    THEN "HEALTHY"
    ELSE IF collector_status = "error" \/ macro_status = "error"
    THEN "ERROR"
    ELSE IF collector_status = "stopped"
    THEN "STOPPED"
    ELSE "UNKNOWN"

\* the ingestor's task has exited with a fatal error and the ws-collector
\* thread has seen it
TaskFailed == pc = "fatal" /\ ws \in {"failed", "exited"}

\* _write_health_metrics up to write_heartbeat: the payload copies the
\* collector and macro_minute cells under the lock
BuildPayload ==
    /\ hm = "loop"
    /\ orch = "running"
    /\ hm' = "writing"
    /\ pending' = [collector |-> health_data.collector,
                   macro_minute |-> health_data.macro_minute.status,
                   transformer |-> health_data.transformer.status,
                   afterFail |-> TaskFailed]
    /\ UNCHANGED <<orch, started, ws, health_data, snapshot, fetcher, ticker_i,
                   lookback_days, total_rows, stored, upstream, tr, naps, report,
                   fetches, failed, processed, snapAfterFail, snapSeen, alive>>

\* write_heartbeat of the health monitor: the JSON payload and the report
\* replace the ones on disk
WriteHealthMetrics ==
    /\ hm = "writing"
    /\ hm' = "loop"
    /\ snapshot' = [collector |-> pending.collector,
                    macro_minute |-> pending.macro_minute]
    /\ report' = OverallStatus(pending.collector, pending.macro_minute)
    /\ snapAfterFail' = (pending.afterFail /\ orch = "running")
    /\ snapSeen' = [transformer |-> pending.transformer, final |-> FALSE]
    /\ pending' = NoPayload
    /\ UNCHANGED <<orch, started, ws, health_data, fetcher, ticker_i,
                   lookback_days, total_rows, stored, upstream, tr, naps,
                   fetches, failed, processed, alive>>

\* _run_health_monitor leaves its loop at a test of stop_event
HealthMonitorExit ==
    /\ hm = "loop"
    /\ StopSet
    /\ hm' = "exited"
    /\ UNCHANGED <<orch, started, ws, health_data, snapshot, fetcher, ticker_i,
                   lookback_days, total_rows, stored, upstream, tr, naps, pending,
                   report, fetches, failed, processed, snapAfterFail, snapSeen,
                   alive>>

\* ---- stop() and the signals ----------------------------------------------------

\* stop(): stop_event.set(). main calls it on KeyboardInterrupt, which
\* SIGINT raises in the main thread, during start() or after it
Stop ==
    /\ orch = "running"
    /\ orch' = "stopping"
    /\ UNCHANGED <<started, ws, health_data, snapshot, fetcher, ticker_i,
                   lookback_days, total_rows, stored, upstream, tr, naps, hm,
                   pending, report, fetches, failed, processed, snapAfterFail,
                   snapSeen, alive>>

\* SIGTERM: no handler is installed in the orchestrator process (the one of
\* run_collector cannot be registered outside the main thread), so the
\* default disposition ends the process at once
Sigterm ==
    /\ orch \in {"running", "stopping", "joined", "marked"}
    /\ orch' = "killed"
    /\ UNCHANGED <<started, ws, health_data, snapshot, fetcher, ticker_i,
                   lookback_days, total_rows, stored, upstream, tr, naps, hm,
                   pending, report, fetches, failed, processed, snapAfterFail,
                   snapSeen, alive>>

\* the threads that have been started and have not exited
AliveThreads ==
    {n \in {"ws-collector", "macro-fetcher", "transformer", "health-monitor"} :
        \/ n = "ws-collector" /\ ws \notin {"unstarted", "exited"}
        \/ n = "macro-fetcher" /\ fetcher \notin {"unstarted", "exited"}
        \/ n = "transformer" /\ tr \notin {"unstarted", "exited"}
        \/ n = "health-monitor" /\ hm \notin {"unstarted", "exited"}}

\* the joins of stop(): each returns when its thread has exited or when the
\* timeout has expired; the threads alive at the end of the last join
JoinThreads ==
    /\ orch = "stopping"
    /\ orch' = "joined"
    /\ alive' = AliveThreads
    /\ UNCHANGED <<started, ws, health_data, snapshot, fetcher, ticker_i,
                   lookback_days, total_rows, stored, upstream, tr, naps, hm,
                   pending, report, fetches, failed, processed, snapAfterFail,
                   snapSeen>>

\* stop() after the joins: every status stopped, under the lock
MarkStopped ==
    /\ orch = "joined"
    /\ orch' = "marked"
    /\ health_data' =
          [health_data EXCEPT !.collector = "stopped",
                              !.macro_minute.status = "stopped",
                              !.transformer.status = "stopped"]
    /\ UNCHANGED <<started, ws, snapshot, fetcher, ticker_i, lookback_days,
                   total_rows, stored, upstream, tr, naps, hm, pending, report,
                   fetches, failed, processed, snapAfterFail, snapSeen, alive>>

\* the final heartbeat: _write_health_metrics in stop(), which then returns
FinalHeartbeat ==
    /\ orch = "marked"
    /\ orch' = "stopped"
    /\ snapshot' = [collector |-> health_data.collector,
                    macro_minute |-> health_data.macro_minute.status]
    /\ report' = OverallStatus(health_data.collector,
                               health_data.macro_minute.status)
    /\ snapAfterFail' = FALSE
    /\ snapSeen' = [transformer |-> health_data.transformer.status,
                    final |-> TRUE]
    /\ UNCHANGED <<started, ws, health_data, fetcher, ticker_i, lookback_days,
                   total_rows, stored, upstream, tr, naps, hm, pending, fetches,
                   failed, processed, alive>>

\* ---- the transformer thread ----------------------------------------------------

\* one second of the wait before a run (production mode: the first run
\* follows a full interval)
TransformNap ==
    /\ tr = "wait"
    /\ orch = "running"
    /\ naps < TransformIntervalSec
    /\ naps' = naps + 1
    /\ UNCHANGED <<orch, started, ws, health_data, snapshot, fetcher, ticker_i,
                   lookback_days, total_rows, stored, upstream, tr, hm, pending,
                   report, fetches, failed, processed, snapAfterFail, snapSeen,
                   alive>>

\* (mutant of StartTransformer: the error of the last run is kept)
C30_StartTransformer_KeepsError ==
    /\ tr = "wait"
    /\ orch = "running"
    /\ naps = TransformIntervalSec
    /\ runs < MaxRuns
    /\ tr' = "run"
    /\ naps' = 0
    /\ health_data' = [health_data EXCEPT !.transformer.status = "running"]
    /\ UNCHANGED <<orch, started, ws, snapshot, fetcher, ticker_i, lookback_days,
                   total_rows, stored, upstream, hm, pending, report, fetches,
                   failed, processed, snapAfterFail, snapSeen, alive>>

\* _run_transformer up to run_transformer: status running, last_error None
StartTransformer ==
    /\ tr = "wait"
    /\ orch = "running"
    /\ naps = TransformIntervalSec
    /\ runs < MaxRuns
    /\ tr' = "run"
    /\ naps' = 0
    /\ health_data' = [health_data EXCEPT !.transformer.status = "running",
                                          !.transformer.last_error = NoError]
    /\ UNCHANGED <<orch, started, ws, snapshot, fetcher, ticker_i, lookback_days,
                   total_rows, stored, upstream, hm, pending, report, fetches,
                   failed, processed, snapAfterFail, snapSeen, alive>>

\* run_transformer returns or raises, and the finally clause of
\* _run_transformer: status idle, last_run_end
RunTransformer(ok) ==
    /\ tr = "run"
    /\ tr' = "wait"
    /\ IF ok THEN TransformSymbolDay
       ELSE runs' = runs + 1 /\ UNCHANGED <<raw, parquet, loaded, out, returned>>
    /\ health_data' =
          [health_data EXCEPT
              !.transformer.status = "idle",
              !.transformer.last_run_end = runs + 1,
              !.transformer.last_error =
                  IF ok THEN @ ELSE [ticker |-> "run", what |-> "raise"]]
    /\ UNCHANGED <<orch, started, ws, snapshot, fetcher, ticker_i, lookback_days,
                   total_rows, stored, upstream, naps, hm, pending, report,
                   fetches, failed, processed, snapAfterFail, snapSeen, alive>>

\* _run_transform_loop returns at a test of stop_event: status stopped
TransformLoopExit ==
    /\ tr = "wait"
    /\ StopSet
    /\ tr' = "exited"
    /\ health_data' = SetStatus("transformer", "stopped")
    /\ UNCHANGED <<orch, started, ws, snapshot, fetcher, ticker_i, lookback_days,
                   total_rows, stored, upstream, naps, hm, pending, report,
                   fetches, failed, processed, snapAfterFail, snapSeen, alive>>

\* ---- the macro-fetcher thread ----------------------------------------------------

\* _fetch_macro_data up to its loop: the startup backfill first, then the
\* scheduled runs
StartFetch ==
    /\ fetcher \in {"startup", "idle"}
    /\ fetcher = "idle" => orch = "running"
    /\ fetches < MaxFetches
    /\ fetcher' = "running"
    /\ fetches' = fetches + 1
    /\ lookback_days' = IF fetcher = "startup" THEN MacroLookbackStartupDays
                                               ELSE MacroRuntimeLookbackDays
    /\ ticker_i' = 1
    /\ total_rows' = 0
    /\ failed' = {}
    /\ processed' = {}
    /\ health_data' =
          [health_data EXCEPT !["macro_minute"]["status"] = "running",
                              !["macro_minute"]["last_error"] = NoError]
    /\ UNCHANGED <<orch, started, ws, snapshot, stored, upstream, tr, naps, hm,
                   pending, report, snapAfterFail, snapSeen, alive>>

\* fetch_yf_1m: the upstream rows, or an empty frame when the download fails
FetchYf1m(k, fault) == IF fault = "fetch" THEN {} ELSE upstream[k]

\* _read_existing_data: the stored timestamps not older than the cutoff, or
\* an empty frame when reading fails
ReadExistingData(k, days, fault) ==
    IF fault = "read" THEN {}
    ELSE {ts \in Timestamps : stored[k][ts] > 0 /\ ts >= Today - days}

\* the rows _fetch_macro_data writes for a key
ToWrite(new, existing) == IF existing # {} THEN new \ existing ELSE new

\* write_parquet: the rows are added to the partitions; a failure is logged
WriteParquet(k, rows, fault) ==
    IF fault = "write" THEN stored
    ELSE [stored EXCEPT ![k] = [ts \in Timestamps |->
                                   IF ts \in rows THEN stored[k][ts] + 1
                                                  ELSE stored[k][ts]]]

\* whether the fault is met in the iteration for key k: the existing data
\* are read only for a non-empty download, rows are written only when some
\* are new
Occurs(k, fault, days) ==
    CASE fault = "none" -> FALSE
      [] fault = "fetch" -> TRUE
      [] fault = "write" ->
            ToWrite(upstream[k], ReadExistingData(k, days, fault)) # {}
      [] OTHER -> upstream[k] # {}

\* the except clause of the loop body: only an exception that reaches it is
\* recorded; fetch, read and write failures are handled where they occur
RecordFailure(k, fault) ==
    IF fault = "raise" /\ upstream[k] # {}
    THEN SetMacro("last_error", [ticker |-> k, what |-> fault])
    ELSE health_data

\* one iteration of the loop of _fetch_macro_data, for key k. fault: what
\* goes wrong for this key ("raise": an exception in the deduplication)
FetchTicker(k, fault) ==
    /\ fetcher = "running"
    /\ orch = "running"
    /\ ticker_i <= Len(Tickers)
    /\ k = Tickers[ticker_i]
    /\ ticker_i' = ticker_i + 1
    /\ processed' = processed \cup {k}
    /\ failed' = IF Occurs(k, fault, lookback_days + ExistingMargin)
                 THEN failed \cup {k} ELSE failed
    /\ health_data' = RecordFailure(k, fault)
    /\ IF fault = "raise" \/ FetchYf1m(k, fault) = {}
       THEN UNCHANGED <<stored, total_rows>>
       ELSE /\ stored' = WriteParquet(k,
                  ToWrite(FetchYf1m(k, fault),
                          ReadExistingData(k, lookback_days + ExistingMargin, fault)),
                  fault)
            /\ total_rows' = total_rows + Cardinality(
                  ToWrite(FetchYf1m(k, fault),
                          ReadExistingData(k, lookback_days + ExistingMargin, fault)))
    /\ UNCHANGED <<orch, started, ws, snapshot, fetcher, lookback_days, upstream,
                   tr, naps, hm, pending, report, fetches, snapAfterFail,
                   snapSeen, alive>>

\* the loop ends (every key done, or stop requested) and the finally clause
\* runs: status idle, last_run_end, the rows written
EndFetch ==
    /\ fetcher = "running"
    /\ ticker_i > Len(Tickers) \/ StopSet
    /\ fetcher' = "idle"
    /\ health_data' =
          [health_data EXCEPT !["macro_minute"]["status"] = "idle",
                              !["macro_minute"]["last_run_end"] = fetches,
                              !["macro_minute"]["last_run_rows_written"] = total_rows]
    /\ UNCHANGED <<orch, started, ws, snapshot, ticker_i, lookback_days,
                   total_rows, stored, upstream, tr, naps, hm, pending, report,
                   fetches, failed, processed, snapAfterFail, snapSeen, alive>>

\* _run_macro_loop ends at its test of stop_event: status stopped
MacroLoopExit ==
    /\ fetcher = "idle"
    /\ StopSet
    /\ fetcher' = "exited"
    /\ health_data' = SetMacro("status", "stopped")
    /\ UNCHANGED <<orch, started, ws, snapshot, ticker_i, lookback_days,
                   total_rows, stored, upstream, tr, naps, hm, pending, report,
                   fetches, failed, processed, snapAfterFail, snapSeen, alive>>

Faults == {"none", "fetch", "read", "write", "raise"}

StreamIdle == BusIdle /\ WriterIdle /\ CollectorIdle /\ ToolsIdle

\* the fetcher thread
NextFetcher ==
    \/ Up /\ StartFetch /\ StreamIdle /\ TransformerIdle
    \/ \E k \in TickerSet, fault \in Faults :
          Up /\ FetchTicker(k, fault) /\ StreamIdle /\ TransformerIdle
    \/ Up /\ EndFetch /\ StreamIdle /\ TransformerIdle
    \/ Up /\ MacroLoopExit /\ StreamIdle /\ TransformerIdle
    \/ Stop /\ StreamIdle /\ TransformerIdle

\* the main thread (start, stop, the signals) and the fetcher thread but
\* for the iterations of a fetch run
NextMain ==
    \/ StartThread /\ StreamIdle /\ TransformerIdle
    \/ Up /\ StartFetch /\ StreamIdle /\ TransformerIdle
    \/ Up /\ EndFetch /\ StreamIdle /\ TransformerIdle
    \/ Up /\ MacroLoopExit /\ StreamIdle /\ TransformerIdle
    \/ Stop /\ StreamIdle /\ TransformerIdle
    \/ JoinThreads /\ StreamIdle /\ TransformerIdle
    \/ MarkStopped /\ StreamIdle /\ TransformerIdle
    \/ FinalHeartbeat /\ StreamIdle /\ TransformerIdle
    \/ Sigterm /\ StreamIdle /\ TransformerIdle

\* the ws-collector thread; of the ingestor's task only the set-up and the
\* cancellation are followed
NextWsThread ==
    \/ Up /\ WsStart /\ StreamIdle /\ TransformerIdle
    \/ \E ok \in BOOLEAN : Up /\ WsSetup(ok) /\ TransformerIdle /\ ToolsIdle
    \/ Up /\ WsTaskFailed /\ StreamIdle /\ TransformerIdle
    \/ Up /\ WsCancel /\ TransformerIdle /\ ToolsIdle
    \/ Up /\ WsExit /\ StreamIdle /\ TransformerIdle

\* the health-monitor thread
NextHealthThread ==
    \/ BuildPayload /\ StreamIdle /\ TransformerIdle
    \/ Up /\ WriteHealthMetrics /\ StreamIdle /\ TransformerIdle
    \/ Up /\ HealthMonitorExit /\ StreamIdle /\ TransformerIdle

\* the transformer thread
NextTransformThread ==
    \/ TransformNap /\ StreamIdle /\ TransformerIdle
    \/ StartTransformer /\ StreamIdle /\ TransformerIdle
    \/ \E ok \in BOOLEAN : Up /\ RunTransformer(ok) /\ StreamIdle
    \/ Up /\ TransformLoopExit /\ StreamIdle /\ TransformerIdle

\* the orchestrator with the threads its health snapshot reports; the fetch
\* runs meet no fault and the transformer thread only waits for the stop
NextOrchestrator ==
    \/ NextMain
    \/ \E k \in TickerSet :
          Up /\ FetchTicker(k, "none") /\ StreamIdle /\ TransformerIdle
    \/ NextWsThread
    \/ NextHealthThread
    \/ Up /\ TransformLoopExit /\ StreamIdle /\ TransformerIdle

\* the orchestrator with its periodic components, whose runs may raise; the
\* ws-collector and the health monitor are started and not followed
NextSchedule ==
    \/ NextMain
    \/ \E k \in TickerSet, fault \in {"none", "raise"} :
          Up /\ FetchTicker(k, fault) /\ StreamIdle /\ TransformerIdle
    \/ NextTransformThread

----------------------------------------------------------------------------
(* Properties of the event bus *)

Created(q) == q \in QueueIds /\ q < nextQ

\* s is an order-preserving subsequence of t (greedy matching from the left)
RECURSIVE IsSubseq(_, _)
IsSubseq(s, t) ==
    IF s = <<>> THEN TRUE
    ELSE IF t = <<>> THEN FALSE
    ELSE IF Head(s) = Head(t) THEN IsSubseq(Tail(s), Tail(t))
    ELSE IsSubseq(s, Tail(t))

\* C1 (as amended): a queue never holds more than its capacity N; while the
\* consumer has read nothing from it, after n publishes to its channel it holds
\* exactly the last min(n, N) of them in publish order and publish() has counted
\* exactly max(0, n - N) drops for it. The bus's dropped counter is the sum of
\* the drops counted for all queues: since the queue was subscribed it has grown
\* by at least max(0, n - N), and by exactly that when no other queue overflowed.
C1_DropOldestPerQueue ==
    /\ dropped = SumOver(qdrops, QueueIds)
    /\ \A q \in QueueIds : Created(q) =>
        /\ Len(queues[q]) <= maxsize
        /\ readLog[q] = <<>> =>
            LET n == Len(expected[q]) IN
            /\ queues[q] = LastN(expected[q], Min(n, maxsize))
            /\ qdrops[q] = Max(0, n - maxsize)
            /\ dropped - droppedAtSub[q] >= Max(0, n - maxsize)
            /\ (\A r \in QueueIds \ {q} : qdrops[r] = 0)
                   => dropped - droppedAtSub[q] = Max(0, n - maxsize)

\* C1 witness: capacity 2, three publishes reached an unread queue, one dropped
C1_Witness ==
    \E q \in QueueIds :
        /\ Created(q) /\ readLog[q] = <<>> /\ maxsize = 2
        /\ Len(expected[q]) = 3 /\ queues[q] = <<2, 3>> /\ dropped = 1

\* C1 as stated: with no consumer reads, the bus's dropped counter has grown by
\* exactly max(0, n - N) since the queue was subscribed
C1_Original ==
    \A q \in QueueIds : (Created(q) /\ readLog[q] = <<>>) =>
        LET n == Len(expected[q]) IN
        /\ Len(queues[q]) <= maxsize
        /\ queues[q] = LastN(expected[q], Min(n, maxsize))
        /\ dropped - droppedAtSub[q] = Max(0, n - maxsize)

\* C2, state part: whatever a queue has received (read, still queued, or
\* dropped from it) was published to its channel while it was registered
C2_OnlyOwnChannel ==
    \A q \in QueueIds : Created(q) =>
        Range(readLog[q]) \cup Range(queues[q]) \cup Range(discarded[q])
            \subseteq Range(expected[q])

\* C2, step part: unsubscribe(ch, q) of a queue not registered on ch changes
\* no registration
C2_UnsubscribeMiss ==
    \A ch \in Channels, q \in QueueIds :
        (Unsubscribe(ch, q) /\ q \notin Range(subscribers[ch]))
            => subscribers' = subscribers

\* C2: a queue returned by subscribe(C) receives only events published to C
\* while it is registered on C (not those of other channels, of before the
\* subscribe or of after the unsubscribe), and an unsubscribe of a queue that is
\* not registered on the channel changes no registration
C2_SubscriberIsolation == []C2_OnlyOwnChannel /\ [][C2_UnsubscribeMiss]_vars

\* C2 witness: a queue subscribed after the first publish received an event,
\* was unsubscribed, and a later publish went by
C2_Witness ==
    \E q \in QueueIds :
        /\ Created(q) /\ ~Registered(q)
        /\ expected[q] = <<2>> /\ readLog[q] = <<2>>
        /\ published = 3

\* C3: for every queue, what the consumer has read followed by what is still
\* queued is an order-preserving subsequence (no reordering, no duplicate) of
\* the events published to the queue's channel while it was registered; and in
\* a window over which the dropped counter has not changed, every event
\* published to the channel in the window has been read or is still queued
C3_OrderedDelivery ==
    \A q \in QueueIds : Created(q) =>
        /\ IsSubseq(readLog[q] \o queues[q], expected[q])
        /\ (winMarked /\ dropped = winDropped) =>
              \A i \in 1..Len(expected[q]) :
                  expected[q][i] > winStart
                      => expected[q][i] \in Range(readLog[q] \o queues[q])

\* C3 witness: a window opened after a drop, an event published and read in it
C3_Witness ==
    \E q \in QueueIds :
        /\ Created(q) /\ winMarked /\ winDropped = 1 /\ dropped = 1
        /\ discarded[q] # <<>>
        /\ \E e \in Range(readLog[q]) : e > winStart

----------------------------------------------------------------------------
(* Properties of the rotating writer *)

AppendedOn(d) == \E i \in 1..Len(appended) : DateOf(appended[i].t) = d

\* C4 (as stated): in every day directory the part indices present are exactly
\* 1..K without gap or repeat, K >= 1 when an event was written on that day,
\* and every index is rendered with exactly three digits
C4_Original ==
    \A d \in Days :
        /\ \A i \in dirs[d].new : i = 1 \/ (i - 1) \in FilesIn(dirs[d])
        /\ AppendedOn(d) => FilesIn(dirs[d]) # {}
        /\ \A i \in dirs[d].new \cup ({dirs[d].old} \ {0}) : Len(PartDigits(i)) = 3

\* the least multiple of interval_sec after t
NextMultipleAfter(t) ==
    CHOOSE m \in (t + 1)..(t + interval_sec) : m % interval_sec = 0

HoldsOpenFile(wr) == IsFile(wr.fp) /\ wr.fp.open

SameFile(a, b) == a.date = b.date /\ a.idx = b.idx

\* C5, the boundary and the single write: the boundary of the file the writer
\* holds open is the next multiple of interval_sec after its open time; a write
\* at or past it goes to a new part (index + 1 when on the same UTC day), a
\* write before it goes to the current part
C5_RotationStep ==
    /\ HoldsOpenFile(w) => w.next_rotation_epoch = NextMultipleAfter(openedAt)
    /\ (lastW.res = "appended" /\ HoldsOpenFile(lastW.before)) =>
          LET b == lastW.before IN
          IF lastW.t >= b.next_rotation_epoch
          THEN /\ ~SameFile(lastW.file, b.fp)
               /\ DateOf(lastW.t) = b.fp.date =>
                     /\ lastW.file.date = b.fp.date
                     /\ lastW.file.idx = b.fp.idx + 1
          ELSE SameFile(lastW.file, b.fp)

C6_Original ==
    /\ \A i \in 1..Len(appended) : appended[i].date = DateOf(appended[i].t)
    /\ (lastW.res = "appended" /\ IsFile(lastW.before.fp)
            /\ DateOf(lastW.t) # lastW.before.fp.date)
          => /\ lastW.file.date = DateOf(lastW.t)
             /\ lastW.file.idx = lastW.scan

----------------------------------------------------------------------------
(* Properties of the ingestor *)

WriteErrors == {"OSError", "ValueError"}

\* the file the next write_obj call appends to when the disk is healthy again
NextTarget == WriteObj(w, dirs, interval_sec, clock, "none", TRUE).file

\* C7 (as stated): a failed open or append during a write loses only that
\* event: no session is lost to it (no reconnect delay is caused by a write),
\* the writer is left unopened with its part index not past the file that
\* failed to open, and the next write opens that same file
C7_Original ==
    /\ lastDelay.cause # "write"
    /\ (lastW.res \in WriteErrors /\ IsFile(failedOpen)) =>
          /\ ~IsFile(w.fp)
          /\ w.part_index <= failedOpen.idx
          /\ SameFile(NextTarget, failedOpen)

RECURSIVE ExpectedPublishes(_)
ExpectedPublishes(dec) ==
    IF dec = <<>> THEN <<>>
    ELSE <<[ch |-> ChannelOf("trade", Head(dec).sym), e |-> Head(dec).e],
           [ch |-> "all", e |-> Head(dec).e]>> \o ExpectedPublishes(Tail(dec))

\* C8 (as stated): every decoded event is handed to the writer of its symbol
\* and published on <kind>:<symbol> and on all, in decode order, whoever runs
\* the ingestor: the events handed to writers are the decoded ones, and the
\* publish calls are the two calls of each decoded event
C8_Original ==
    /\ handed = decoded
    /\ pubLog = ExpectedPublishes(decoded)

Slept == lastDelay.handler # "none"

\* the reconnect loop is between two except clauses
Looping == pc \in {"connect", "recv"}

\* C9, the part that holds for every handler: the delay without jitter is at
\* least min(max_backoff, initial_backoff * 2^i) for the i-th consecutive
\* failure, the jitter is between 0 and jitter_factor x backoff, and the
\* backoff after a failure never exceeds max_backoff
C9_DelayBounds ==
    /\ (Looping /\ Slept) => backoff <= max_backoff
    /\ Slept =>
          /\ lastDelay.base >= Min(max_backoff, initial_backoff * Pow2(lastDelay.i))
          /\ lastDelay.jitter >= 0
          /\ lastDelay.jitter <= jitter_factor * lastDelay.base

\* C9 (as amended): delay >= min(max_backoff, initial_backoff * 2^i) without
\* jitter; after a network failure (timeout, connection closed, connection
\* error, OS error) the backoff doubles, capped at max_backoff, and the jitter
\* is at most jitter_factor x backoff; after any other exception no jitter is
\* added and the backoff becomes min(max_backoff, max(5, 2 x backoff))
C9_BackoffSchedule ==
    /\ C9_DelayBounds
    /\ (Looping /\ lastDelay.handler = "network") =>
          backoff = Min(max_backoff, 2 * lastDelay.base)
    /\ lastDelay.handler = "other" => lastDelay.jitter = 0
    /\ (Looping /\ lastDelay.handler = "other") =>
          backoff = Min(max_backoff, Max(ErrorFloor, 2 * lastDelay.base))

\* C9 witness: the third consecutive failure, a network failure, slept the
\* capped backoff (less than four times the initial one) plus jitter
C9_Witness ==
    /\ lastDelay.handler = "network" /\ lastDelay.i = 2
    /\ lastDelay.base = max_backoff
    /\ lastDelay.base < 4 * initial_backoff
    /\ lastDelay.jitter > 0
    /\ backoff = max_backoff
    /\ pc = "connect"

\* C9 (as stated): ... the backoff doubles per failure, capped at max_backoff,
\* for every failure kind the reconnect loop handles
C9_Original ==
    /\ C9_DelayBounds
    /\ (Looping /\ Slept) => backoff = Min(max_backoff, 2 * lastDelay.base)

\* C10 (as stated): when a session that connected and streamed frames is lost,
\* the delay before the next attempt is computed from the initial backoff
C10_Original ==
    (Slept /\ lastDelay.streamed) =>
        /\ lastDelay.base = initial_backoff
        /\ lastDelay.jitter <= jitter_factor

\* a step in which ws.recv() gave a frame that is no JSON or decodes to no event
DroppedFrameStep ==
    /\ pc = "recv"
    /\ lastFrame' \in {"nonjson", "undecodable"}
    /\ lastFrame' # lastFrame

\* a step in which ws.recv() raised (transport error or connection closed)
TransportErrorStep == pc = "recv" /\ lastFrame' = "error"

\* the dropped frame changes nothing but the position in the frame loop, which
\* goes on unless stop has been requested
C11_DroppedFrame ==
    DroppedFrameStep =>
        /\ pc' = IF stop_event THEN "return" ELSE "recv"
        /\ UNCHANGED <<decoded, handed, pubLog, attempt, failures, backoff,
                       lastDelay, w, dirs, appended, closes>>

\* the error ends the session and starts the sleep of an except clause with
\* the current backoff
C11_TransportError ==
    TransportErrorStep =>
        /\ pc' = "sleep"
        /\ failures' = failures + 1
        /\ lastDelay'.cause = "recv"
        /\ lastDelay'.base = backoff

\* the sleep is followed by a new connection attempt unless stop has been
\* requested (stop_event set, or the task cancelled)
C11_RetryAfterSleep ==
    (pc = "sleep" /\ pc' # "sleep") =>
        \/ ~stop_event /\ pc' = "connect"
        \/ stop_event /\ pc' = "exit"
        \/ pc' = "cancelled"

\* once in its reconnect loop, run_collector leaves it only when stop has been
\* requested
C11_NeverIdle ==
    /\ pc \in {"return", "exit", "done"} => stop_event
    /\ ~stop_event => pc \in {"setup", "fatal", "connect", "recv", "sleep",
                               "cancelled"}

\* C11: a frame that is not valid JSON or that the adapter cannot decode is
\* dropped and the same session continues with the next frame; a transport
\* error or connection close ends the session and, unless stop has been
\* requested, is followed by a new connection attempt after the backoff sleep:
\* the ingestor is never neither connected nor retrying while stop is unset
C11_SessionContinuity ==
    /\ [][C11_DroppedFrame /\ C11_TransportError /\ C11_RetryAfterSleep]_vars
    /\ []C11_NeverIdle

\* C11 witness: a session was lost to a transport error, the sleep was
\* followed by a new connection, and that session goes on after dropping a
\* frame that is no JSON
C11_Witness ==
    /\ pc = "recv" /\ ~stop_event
    /\ lastFrame = "nonjson"
    /\ failures >= 1 /\ lastDelay.cause = "recv"
    /\ attempt = 0

\* run_collector has ended: returned, raised during set-up, or cancelled
Terminated == pc \in {"done", "fatal", "cancelled"}

\* once stop_event is set the ingestor leaves its reconnect loop
C12_StopLeaves == stop_event ~> Terminated

\* no connection attempt is started while stop_event is set (an attempt that
\* was already under way may still complete; its session ends at once)
C12_NoNewConnection ==
    stop_event => /\ (pc' = "connect" => pc = "connect")
                  /\ (pc' = "recv" => pc = "recv")

\* a terminated ingestor holds no file: every writer has been closed
C12_WritersClosed == Terminated => (~IsFile(w.fp) /\ ~HoldsOpenFile(w))

\* C12: once the stop signal is set, the ingestor eventually leaves its
\* connection loop from every state (reading frames, backoff sleep, between
\* sessions) without opening a new connection, and whenever it terminates, by
\* stop, error or cancellation, every one of its writers has been closed
C12_GracefulStop ==
    /\ C12_StopLeaves
    /\ [][C12_NoNewConnection]_vars
    /\ []C12_WritersClosed

\* C12 witness: stop was set while a frame was being read; the event was still
\* written, the frame loop and the reconnect loop ended and the file was closed
C12_Witness ==
    /\ pc = "done" /\ stop_event
    /\ lastFrame = "event"
    /\ Len(appended) >= 1 /\ closes >= 1
    /\ ~IsFile(w.fp)

----------------------------------------------------------------------------
(* Properties of the bar aggregator *)

\* comparisons of float columns: a comparison with a missing value is false
Leq(a, b) == a # NaN /\ b # NaN /\ a <= b
Known(b) == b.open # NaN /\ b.high # NaN /\ b.low # NaN /\ b.close # NaN

\* x <= n/d and n/d <= x
LeqRatio(x, r) == x # NaN /\ r.n # NaN /\ x * r.d <= r.n
RatioLeq(r, x) == x # NaN /\ r.n # NaN /\ r.n <= x * r.d
RatioIs(r, x) == r.n # NaN /\ r.n = x * r.d

Bars == {out[i] : i \in 1..Len(out)}
LoadedTrades == {e \in Range(loaded) : e.stream = "trade"}
LoadedQuotes == {e \in Range(loaded) : e.stream = "bookTicker"}

\* the event of a non-empty set with the greatest timestamp
Latest(S) == CHOOSE e \in S : \A o \in S : o.ts_event <= e.ts_event

\* the events of a set before the start of second s, and before its end
Before(S, s) == {e \in S : e.ts_event < s * MsPerSecond}
UpTo(S, s) == {e \in S : e.ts_event < (s + 1) * MsPerSecond}
Within(S, s) == UpTo(S, s) \ Before(S, s)

\* the bounds of a bar
OhlcOrdered(b) ==
    /\ Leq(b.low, Min(b.open, b.close))
    /\ Leq(Max(b.open, b.close), b.high)
    /\ b.volume_base >= 0
    /\ b.volume_base > 0 => (LeqRatio(b.low, b.vwap) /\ RatioLeq(b.vwap, b.high))

\* C13 (as stated): every bar the aggregator produces, for any input of trades
\* and quotes, has low <= min(open, close), max(open, close) <= high,
\* volume_base >= 0, and low <= vwap <= high whenever volume_base > 0
C13_Original == \A b \in Bars : OhlcOrdered(b)

\* the bars of the seconds from the first trade on are ordered
C13_OrderedFromFirstTrade ==
    \A b \in Bars : Before(LoadedTrades, b.window_start + 1) # {} => OhlcOrdered(b)

\* the bar of a second without trades: no volume, the prices of the last
\* trade before it, the last quote up to it
FlatBar(b) ==
    /\ b.volume_base = 0 /\ b.volume_quote = 0 /\ b.trade_count = 0
    /\ Before(LoadedTrades, b.window_start) # {}
    /\ b.open = Latest(Before(LoadedTrades, b.window_start)).price
    /\ b.high = b.open /\ b.low = b.open /\ b.close = b.open
    /\ UpTo(LoadedQuotes, b.window_start) # {} =>
          /\ b.bid = Latest(UpTo(LoadedQuotes, b.window_start)).bid
          /\ b.ask = Latest(UpTo(LoadedQuotes, b.window_start)).ask

\* an event is counted in the bar of the second its timestamp falls in; a
\* timestamp on a second boundary falls in the second it equals
CountedInOwnSecond ==
    \A e \in LoadedTrades :
        \E b \in Bars :
            /\ b.window_start * MsPerSecond <= e.ts_event
            /\ e.ts_event < (b.window_start + 1) * MsPerSecond
            /\ b.trade_count = Cardinality(Within(LoadedTrades, b.window_start))
            /\ b.low <= e.price /\ e.price <= b.high

\* C14 (as stated): every second in the output range that contains no trade
\* produces a bar with volume_base = volume_quote = trade_count = 0, open =
\* high = low = close = the close of the most recent earlier second that had
\* a trade, and bid/ask equal to the last quote at or before that second; a
\* timestamp exactly on a second boundary is counted in the second it equals
C14_Original ==
    /\ \A b \in Bars : Within(LoadedTrades, b.window_start) = {} => FlatBar(b)
    /\ CountedInOwnSecond

\* the S1 input: three trades in second 0 and a quote in second 1
S1 == {Pool[2], Pool[3], Pool[4], Pool[5]}
AggregatedS1 == runs >= 1 /\ Range(loaded) = S1 /\ Len(out) = 2

\* the bar of second t0 but for its volume_quote and vwap
S1FirstBar(b) ==
    /\ b.window_start = 0
    /\ b.open = 1000 /\ b.high = 1200 /\ b.low = 1000 /\ b.close = 1100
    /\ b.volume_base = 4 /\ b.trade_count = 3

S1SecondBar(b) ==
    /\ b.window_start = 1
    /\ b.open = 1100 /\ b.high = 1100 /\ b.low = 1100 /\ b.close = 1100
    /\ b.volume_base = 0 /\ b.trade_count = 0
    /\ b.bid = 1050 /\ b.ask = 1150 /\ b.spread = 100

\* C15 (as amended): aggregating the S1 input yields for second t0: open 1.0,
\* high 1.2, low 1.0, close 1.1, volume_base 4.0, volume_quote 4.5,
\* trade_count 3, vwap 1.125; and for second t0 + 1 s: open = high = low =
\* close = 1.1, volume_base 0, trade_count 0, bid 1.05, ask 1.15, spread 0.10
C15_S1Bars ==
    (runs >= 1 /\ Range(loaded) = S1) =>
        /\ Len(out) = 2
        /\ S1FirstBar(out[1])
        /\ out[1].volume_quote = 4500 /\ RatioIs(out[1].vwap, 1125)
        /\ S1SecondBar(out[2])

\* C15 witness: the S1 input has been aggregated
C15_Witness == AggregatedS1 /\ out[1].trade_count = 3 /\ out[2].trade_count = 0

\* C15 (as stated): ... for second t0: volume_quote 3.5 and vwap 0.875 ...
C15_Original ==
    (runs >= 1 /\ Range(loaded) = S1) =>
        /\ Len(out) = 2
        /\ S1FirstBar(out[1])
        /\ out[1].volume_quote = 3500 /\ RatioIs(out[1].vwap, 875)
        /\ S1SecondBar(out[2])

\* the events of the complete lines of the raw files
AllLines == UNION {Range(raw[i]) : i \in 1..Len(raw)}
CompleteLines == {Pool[l.ev] : l \in {m \in AllLines : m.ok}}

\* C16 (as stated): when a raw file contains an unparsable line, in particular
\* a truncated final line left by a crash, the aggregator skips only that
\* line: every complete line of the same file, and every other file of the
\* day, still contributes its event to the bars
C16_Original ==
    runs >= 1 =>
        Range(loaded) = CompleteLines

\* the rows of all partition files
AllRows == UNION {Range(f.rows) : f \in parquet}

\* a run changes and removes no partition file
C17_OnlyAdds == parquet \subseteq parquet'

\* the rows of all runs, deduplicated by window_start, are the bars of one run;
\* a day without raw files or without parsable events writes nothing
C17_UnionIsOneRun ==
    runs >= 1 =>
        /\ AllRows = Bars
        /\ \A a, b \in AllRows : a.window_start = b.window_start => a = b
        /\ \A f \in parquet : f.rows # <<>>
        /\ (raw = <<>> \/ loaded = <<>>) => (parquet = {} /\ returned = "None")
        /\ returned \in {"None", "root"}

----------------------------------------------------------------------------
(* Properties of the orchestrator *)

StoredTs(k) == {ts \in Timestamps : stored[k][ts] > 0}

\* a step stores a row only for a timestamp the key had no row for
C18_WritesOnlyNew ==
    \A k \in TickerSet, ts \in Timestamps :
        stored'[k][ts] > stored[k][ts] => stored[k][ts] = 0

\* no timestamp is stored twice for a key
C18_NoDuplicate ==
    \A k \in TickerSet, ts \in Timestamps : stored[k][ts] <= 1

\* C18 as stated: for every key and every set of upstream rows, whatever
\* their timestamps relative to the lookback window, a fetch run writes only
\* rows whose timestamp is not yet in the key's stored partitions, so that no
\* timestamp is ever stored twice for a key.
C18_Original == [][C18_WritesOnlyNew]_vars /\ []C18_NoDuplicate

\* a fetch run has ended
FetchEnded == fetcher = "idle" /\ fetches >= 1

\* the health state holds key k's own error
HoldsError(k) == health_data.macro_minute.last_error.ticker = k

\* C19 as stated: in a fetch run a failure on one key (fetch, read of the
\* existing data, or write) never keeps the later keys from being processed,
\* and after the run the health state holds, for every key that failed in
\* the run, that key's own last error.
C19_Original ==
    FetchEnded =>
        /\ orch = "running" => processed = TickerSet
        /\ \A k \in failed : HoldsError(k)

\* C20 as stated: when the ingestor's task exits with a fatal error the
\* collector status becomes error, every health snapshot written afterwards
\* and before shutdown reports the collector as error, and no other
\* component's status changes because of it.
C20_Original ==
    /\ TaskFailed /\ orch = "running" => health_data.collector = "error"
    /\ snapAfterFail => snapshot.collector = "error"
    /\ orch = "running" =>
          /\ health_data.transformer.status \in {"idle", "running"}
          /\ health_data.macro_minute.status \in {"idle", "running"}

\* the status a report's overall status stands for
Label(overall) ==
    CASE overall = "HEALTHY" -> "running"
      [] overall = "ERROR" -> "error"
      [] overall = "STOPPED" -> "stopped"
      [] OTHER -> "unknown"

\* the top-level status the snapshot on disk should carry
ExpectedStatus ==
    IF "error" \in {snapshot.collector, snapshot.macro_minute,
                    snapSeen.transformer}
    THEN "error"
    ELSE IF snapSeen.final THEN "stopped" ELSE "running"

\* C21 as stated: the top-level status of the health artefact is error when
\* a supervised subsystem is in error, stopped when shutdown has completed,
\* and running otherwise.
C21_Original == report # "none" => Label(report) = ExpectedStatus

\* C22 as stated: after stop() has returned, the snapshot on disk is the
\* final one and reports every supervised subsystem as stopped, whatever the
\* threads still running at the end of their joins do.
C22_Original ==
    orch = "stopped" =>
        /\ snapSeen.final
        /\ snapshot.collector = "stopped"
        /\ snapshot.macro_minute = "stopped"

\* the threads the start/stop test looks at
Supervised == {"ws-collector", "macro-fetcher", "health-monitor"}

\* C23 as stated: after start() and stop(timeout) have returned, none of
\* the ingestor, fetcher and health-reporter threads is alive.
C23_Original ==
    orch = "stopped" =>
        /\ alive \cap Supervised = {}
        /\ AliveThreads \cap Supervised = {}

\* the process is gone: terminated by a signal, or stop() has returned
\* and no thread is left
ProcessGone == orch = "killed" \/ (orch = "stopped" /\ AliveThreads = {})

\* C24 as stated: SIGINT and SIGTERM set the stop signal and the process
\* exits only after the graceful shutdown: the tasks joined, the raw
\* writers closed, the final snapshot written.
C24_Original ==
    ProcessGone =>
        /\ orch = "stopped"
        /\ ~IsFile(w.fp)
        /\ report # "none"

\* the ingestor threads start() has started
Ingestors == {i \in 1..Len(started) : started[i] = "ws-collector"}

\* position of a thread in the start order (0: not started)
StartedAt(n) ==
    IF \E i \in 1..Len(started) : started[i] = n
    THEN CHOOSE i \in 1..Len(started) : started[i] = n
    ELSE 0

\* thread a was started, and before thread b if b was started
Before2(a, b) ==
    StartedAt(b) > 0 => StartedAt(a) > 0 /\ StartedAt(a) < StartedAt(b)

C26_Order ==
    /\ Before2("ws-collector", "macro-fetcher")
    /\ Before2("macro-fetcher", "transformer")
    /\ Before2("transformer", "health-monitor")

C26_BusAndIngestors ==
    Len(started) > 0 =>
        /\ event_bus = "EventBus"
        /\ Cardinality(Ingestors) = Cardinality(ConfiguredExchanges)

C26_BackfillFirst ==
    fetches = 1 => lookback_days = MacroLookbackStartupDays

C26_FirstRunAfterInterval ==
    tr = "wait" /\ tr' = "run" => naps = TransformIntervalSec

\* C26 as stated: start() creates the stop signal and the event bus, then
\* starts one ingestor per configured exchange, the fetcher (startup
\* back-fill first), the aggregator loop (first run after a full interval)
\* and the health reporter, in this order.
C26_Original ==
    /\ [](C26_Order /\ C26_BusAndIngestors /\ C26_BackfillFirst)
    /\ [][C26_FirstRunAfterInterval]_vars

Transformer == health_data.transformer
MacroMinute == health_data.macro_minute

\* a run starts: status running, last_error none
C30_RunStarts ==
    /\ tr # "run" /\ tr' = "run" =>
          Transformer'.status = "running" /\ Transformer'.last_error = NoError
    /\ fetcher # "running" /\ fetcher' = "running" =>
          MacroMinute'.status = "running" /\ MacroMinute'.last_error = NoError

\* a run ends: status idle, last_run_end set
C30_RunEnds ==
    /\ tr = "run" /\ tr' # "run" =>
          Transformer'.status = "idle" /\ Transformer'.last_run_end = runs'
    /\ fetcher = "running" /\ fetcher' # "running" =>
          MacroMinute'.status = "idle" /\ MacroMinute'.last_run_end = fetches

\* running is read only during a run, and a cell whose thread has exited
\* reads stopped
C30_Cells ==
    /\ Transformer.status = "running" => tr = "run"
    /\ MacroMinute.status = "running" => fetcher = "running"
    /\ tr = "exited" => Transformer.status = "stopped"
    /\ fetcher = "exited" => MacroMinute.status = "stopped"

\* C30: the aggregator and fetcher cells read running only while a run is in
\* progress; every run, whether it succeeds or raises, sets last_error to
\* none and the status to running at its start and ends with the status
\* idle and last_run_end set; once the loop thread has exited the status is
\* stopped and stays so.
C30_StatusProtocol == [][C30_RunStarts /\ C30_RunEnds]_vars /\ []C30_Cells

\* both threads have exited after a run that raised and a later run
C30_Witness ==
    /\ tr = "exited" /\ runs = MaxRuns
    /\ fetcher = "exited" /\ fetches = MaxFetches
    /\ Transformer.status = "stopped" /\ MacroMinute.status = "stopped"
    /\ MacroMinute.last_error # NoError /\ Transformer.last_error # NoError
    /\ orch = "stopped"

----------------------------------------------------------------------------
(* The accounting of the event bus under concurrent reads *)

\* C29: for each subscriber queue, under every interleaving of publish
\* with the consumer's reads, the events publish tried to enqueue equal the
\* events read plus the events queued plus the drops counted for the queue:
\* the counter is incremented only when an event was discarded and no
\* event is lost without being counted.
C29_Original ==
    \A q \in QueueIds :
        q < nextQ =>
            /\ Len(expected[q]) = Len(readLog[q]) + Len(queues[q]) + qdrops[q]
            /\ qdrops[q] = Len(discarded[q])

----------------------------------------------------------------------------
(* The exchange adapters: collector/exchanges/*.py, and what _consume_ws   *)
(* does with a frame                                                       *)

Adapters == {"binance", "coinbase", "kraken"}

\* the symbol a frame carries: none, one with a writer, one without
FrameSymbols == {""} \cup Symbols

\* Binance frames: the stream name of a combined stream ("": none), the
\* event type "e" ("": none) and the symbol "s"
BinanceFrames ==
    [a : {"binance"},
     k1 : {"", "@trade", "@bookTicker", "@kline_1m"},
     k2 : {"", "trade", "bookTicker", "kline"},
     data : {TRUE},
     sym : FrameSymbols]

\* Coinbase frames: the type and the product_id
CoinbaseFrames ==
    [a : {"coinbase"},
     k1 : {"subscriptions", "heartbeat", "error", "match", "last_match",
           "ticker", "l2update"},
     k2 : {""},
     data : {TRUE},
     sym : FrameSymbols]

\* Kraken frames: the channel, the type, whether the data list has an item
\* and the symbol of its first item
KrakenFrames ==
    [a : {"kraken"},
     k1 : {"status", "heartbeat", "trade", "ticker", "ohlc"},
     k2 : {"update", "subscribe", "subscriptionStatus"},
     data : BOOLEAN,
     sym : FrameSymbols]

Frames == BinanceFrames \cup CoinbaseFrames \cup KrakenFrames

NoRecord == [symbol |-> "", stream |-> "none"]

Record(sym, typ) == [symbol |-> sym, stream |-> typ]

\* the type BinanceAdapter.parse_event gives the record: from the stream
\* name, else from "e", else "unknown"
BinanceType(f) ==
    IF f.k1 # ""
    THEN CASE f.k1 = "@trade" -> "trade"
           [] f.k1 = "@bookTicker" -> "bookTicker"
           [] OTHER -> IF f.k2 = "" THEN "unknown" ELSE f.k2
    ELSE CASE f.k2 = "trade" -> "trade"
           [] f.k2 = "bookTicker" -> "bookTicker"
           [] OTHER -> IF f.k2 = "" THEN "unknown" ELSE f.k2

\* BinanceAdapter.parse_event: a record is returned for every frame
BinanceParseEvent(f) == Record(f.sym, BinanceType(f))

\* CoinbaseAdapter.parse_event
CoinbaseParseEvent(f) ==
    CASE f.k1 \in {"subscriptions", "heartbeat", "error"} -> NoRecord
      [] f.k1 \in {"match", "last_match"} -> Record(f.sym, "trade")
      [] f.k1 = "ticker" -> Record(f.sym, "bookTicker")
      [] OTHER -> NoRecord

\* KrakenAdapter.parse_event
KrakenParseEvent(f) ==
    CASE f.k1 \in {"status", "heartbeat"} -> NoRecord
      [] f.k2 \in {"subscribe", "subscriptionStatus"} -> NoRecord
      [] ~f.data -> NoRecord
      [] f.k1 = "trade" -> Record(f.sym, "trade")
      [] f.k1 = "ticker" -> Record(f.sym, "bookTicker")
      [] OTHER -> NoRecord

\* adapter.parse_event of the adapter get_adapter gave
ParseEvent(f) ==
    CASE f.a = "binance" -> BinanceParseEvent(f)
      [] f.a = "coinbase" -> CoinbaseParseEvent(f)
      [] OTHER -> KrakenParseEvent(f)

\* the frame is a trade or quote message of the adapter's protocol
IsDataFrame(f) ==
    CASE f.a = "binance" ->
             \/ f.k1 \in {"@trade", "@bookTicker"}
             \/ f.k2 \in {"trade", "bookTicker"}
      [] f.a = "coinbase" -> f.k1 \in {"match", "last_match", "ticker"}
      [] OTHER -> /\ f.k1 \in {"trade", "ticker"}
                  /\ f.k2 \notin {"subscribe", "subscriptionStatus"}

InitAdapter ==
    /\ ws_frame \in Frames
    /\ rec = NoRecord
    /\ consumed = FALSE
    /\ written = <<>>
    /\ sent = <<>>

\* no frame is being handled
IdleAdapter ==
    /\ InitAdapter
    /\ ws_frame = [a |-> "binance", k1 |-> "", k2 |-> "", data |-> TRUE, sym |-> ""]

\* _consume_ws from parse_event on: a frame without record or symbol is
\* skipped, the record goes to the writer of its symbol if there is one and
\* to the bus if there is one
ConsumeFrame ==
    /\ ~consumed
    /\ consumed' = TRUE
    /\ rec' = ParseEvent(ws_frame)
    /\ written' = IF ParseEvent(ws_frame).symbol \in WriterSymbols
                  THEN <<ParseEvent(ws_frame)>> ELSE <<>>
    /\ sent' = IF ParseEvent(ws_frame).symbol # "" /\ event_bus # "None"
               THEN <<[stream |-> ParseEvent(ws_frame).stream,
                       symbol |-> ParseEvent(ws_frame).symbol],
                      [stream |-> "all", symbol |-> ""]>>
               ELSE <<>>
    /\ ws_frame' = ws_frame

\* ws.recv() gives the next frame
NextFrame(f) ==
    /\ consumed
    /\ ws_frame' = f
    /\ consumed' = FALSE
    /\ rec' = NoRecord
    /\ written' = <<>>
    /\ sent' = <<>>

\* C25: for every adapter, a frame that is a heartbeat, a subscription
\* acknowledgement or of an unknown message type is dropped silently:
\* nothing is written to a journal and nothing is published for it,
\* whatever symbol it carries.
C25_Original ==
    consumed /\ ~IsDataFrame(ws_frame) => written = <<>> /\ sent = <<>>

----------------------------------------------------------------------------
(* The kline backfiller: tools/backfill_binance.py *)

MaxRetries == 7
BackoffCap == 60
DefaultRetryAfter == 60

\* the Retry-After header of a 429 response; NoHeader when it has none
NoHeader == 0 - 1
RetryAfters == {NoHeader, 1}

\* what session.get and the lines after it can meet: a 200 response with a
\* list, a 200 response with an error object, a 429 response, another
\* error status (raise_for_status raises HTTPError), a
\* requests.exceptions.RequestException such as ConnectionError or Timeout,
\* an exception of another class
Responses ==
    {"ok", "api_error", "429", "http_error", "request_exception", "exception"}

\* the exceptions the except clause catches
RequestExceptions == {"http_error", "request_exception"}

\* int(response.headers.get("Retry-After", 60))
RetryAfter(h) == IF h = NoHeader THEN DefaultRetryAfter ELSE h

\* min(2 ** attempt, 60)
WaitTime(k) == Min(2 ^ k, BackoffCap)

NoSleep == 0 - 1

InitBackfill ==
    /\ max_retries \in 1..MaxRetries
    /\ kline_attempt = 0
    /\ bf = "request"
    /\ result = "none"
    /\ log = <<>>

\* no call of _fetch_klines is under way
IdleBackfill ==
    /\ InitBackfill
    /\ max_retries = 1

\* the time.sleep of one iteration
SleepOf(k, resp, h) ==
    CASE resp = "429" -> RetryAfter(h)
      [] resp \in RequestExceptions -> WaitTime(k)
      [] OTHER -> NoSleep

\* one iteration of the for loop of _fetch_klines; the iteration that uses
\* up range(max_retries) falls through to the return None after the loop
FetchAttempt(resp, h) ==
    /\ bf = "request"
    /\ kline_attempt < max_retries
    /\ log' = Append(log, [response |-> resp, header |-> h,
                           slept |-> SleepOf(kline_attempt, resp, h)])
    /\ kline_attempt' = kline_attempt + 1
    /\ bf' = CASE resp \in {"ok", "api_error"} -> "returned"
               [] resp = "exception" -> "raised"
               [] OTHER -> IF kline_attempt + 1 < max_retries THEN "request"
                           ELSE "returned"
    /\ result' = CASE resp = "ok" -> "data"
                   [] resp = "exception" -> "none"
                   [] resp = "api_error" -> "None"
                   [] OTHER -> IF kline_attempt + 1 < max_retries THEN "none"
                               ELSE "None"
    /\ max_retries' = max_retries

\* request i was followed by another one, or by the return None that ends
\* the retries
TriedAgain(i) ==
    \/ i < Len(log)
    \/ bf = "request"
    \/ i = max_retries /\ bf = "returned" /\ result = "None"

\* C27: when the request of attempt k raises an error _fetch_klines sleeps
\* min(2^k, 60) seconds and tries again, a 429 response makes it wait the
\* Retry-After time and try again, the first successful response is
\* returned, and after max_retries attempts without success it returns
\* None instead of raising.
C27_Original ==
    /\ bf # "raised"
    /\ \A i \in 1..Len(log) :
          /\ log[i].response \in RequestExceptions \cup {"exception"}
                => log[i].slept = WaitTime(i - 1) /\ TriedAgain(i)
          /\ log[i].response = "429"
                => log[i].slept = RetryAfter(log[i].header) /\ TriedAgain(i)
          /\ log[i].response = "ok"
                => i = Len(log) /\ bf = "returned" /\ result = "data"
    /\ bf = "returned" /\ (\A i \in 1..Len(log) : log[i].response # "ok")
          => result = "None"

----------------------------------------------------------------------------
(* The compactor: storage/compactor.py *)

MaxFiles == 3

\* the window starts of the day and the values a bar can have
WindowStarts == {0, 1}
Closes == {1, 2}

\* the rows one aggregator run writes to the partition: a bar for every
\* second from its first to its last, in order
RowSets ==
    UNION {{[i \in 1..(hi - lo + 1) |-> [window_start |-> lo + i - 1,
                                         close |-> c[lo + i - 1]]]
               : c \in [lo..hi -> Closes]}
              : lo \in WindowStarts, hi \in WindowStarts}
    \ {<<>>}

\* write_to_dataset names each file by a fresh uuid: the order of the names
\* is not the order of the writes
FileNames == 1..MaxFiles

InitCompactor ==
    /\ partition = <<>>
    /\ daily = <<>>
    /\ readCount = 0

\* _write_parquet_partitioned of one aggregator run: one more file in the
\* day partition
WritePartitionFile(name, rows) ==
    /\ Len(partition) < MaxFiles
    /\ \A i \in 1..Len(partition) : partition[i].name # name
    /\ partition' = Append(partition, [name |-> name, rows |-> rows])
    /\ UNCHANGED <<daily, readCount>>

\* read_parquet of the glob *.parquet: the rows of the files in the order of
\* the file names
RECURSIVE GlobRows(_, _)
GlobRows(files, names) ==
    IF names = {} THEN <<>>
    ELSE (CHOOSE f \in Range(files) : f.name = MinOf(names)).rows
             \o GlobRows(files, names \ {MinOf(names)})

StartsOf(df) == {df[i].window_start : i \in 1..Len(df)}

RowsAt(df, s) == {df[i] : i \in {j \in 1..Len(df) : df[j].window_start = s}}

\* the s-th smallest element of S, s from 1
RECURSIVE Nth(_, _)
Nth(S, n) == IF n = 1 THEN MinOf(S) ELSE Nth(S \ {MinOf(S)}, n - 1)

\* sort_values("window_start").drop_duplicates(subset=["window_start"]):
\* the rows in the order of window_start, the first row of each
\* window_start kept. sort_values sorts with quicksort, which is not
\* stable: any of the rows of a window_start can come first.
SortDropDuplicates(df) ==
    {[i \in 1..Cardinality(StartsOf(df)) |-> pick[Nth(StartsOf(df), i)]]
        : pick \in {p \in [StartsOf(df) -> Range(df)] :
                       \A s \in StartsOf(df) : p[s] \in RowsAt(df, s)}}

\* _read_partitions_to_df
ReadPartitionsToDf(files) ==
    SortDropDuplicates(GlobRows(files, {files[i].name : i \in 1..Len(files)}))

\* run_compactor for the symbol and the date: nothing is written when the
\* partition has no rows
RunCompactor ==
    /\ partition # <<>>
    /\ daily' \in ReadPartitionsToDf(partition)
    /\ readCount' = Len(partition)
    /\ partition' = partition

\* the files the last run of the compactor read
FilesRead == SubSeq(partition, 1, readCount)

\* the last file written that has a row for window start s
LatestWrite(files, s) ==
    files[MaxOf({i \in 1..Len(files) : s \in StartsOf(files[i].rows)})]

LatestRow(files, s) ==
    CHOOSE r \in Range(LatestWrite(files, s).rows) : r.window_start = s

AllStarts(files) == UNION {StartsOf(files[i].rows) : i \in 1..Len(files)}

\* C28: when the day partition holds several rows for a window_start,
\* written by successive aggregator runs, the daily output has exactly one
\* row per window_start, and it is the row of the latest write.
C28_Original ==
    readCount > 0 =>
        \A s \in AllStarts(FilesRead) :
            /\ Cardinality({i \in 1..Len(daily) : daily[i].window_start = s}) = 1
            /\ \A i \in 1..Len(daily) :
                  daily[i].window_start = s => daily[i] = LatestRow(FilesRead, s)

----------------------------------------------------------------------------
(* Specifications *)

\* no frame, no backfill request, an empty day partition
IdleTools == IdleAdapter /\ IdleBackfill /\ InitCompactor

NextBus ==
    \/ \E ch \in Channels : Subscribe(ch) /\ WriterIdle /\ CollectorIdle /\ BatchIdle
    \/ \E ch \in Channels, q \in QueueIds :
          Unsubscribe(ch, q) /\ WriterIdle /\ CollectorIdle /\ BatchIdle
    \/ \E ch \in Channels, ks \in [QueueIds -> 0..MaxCap] :
          Publish(ch, ks) /\ WriterIdle /\ CollectorIdle /\ BatchIdle
    \/ \E q \in QueueIds : ConsumerGet(q) /\ WriterIdle /\ CollectorIdle /\ BatchIdle
    \/ MarkWindow /\ WriterIdle /\ CollectorIdle /\ BatchIdle

\* a collector that is not running: default-like configuration, no bus
IdleCollector ==
    /\ InitCollector
    /\ event_bus = "None" /\ jitter_factor = 0

\* a fresh directory tree rotated every second
FreshWriter ==
    /\ InitWriter
    /\ interval_sec = 1 /\ dirs[DateOf(StartEpoch)].old = 0

\* the bus alone
InitBusAlone ==
    /\ InitBus /\ FreshWriter /\ IdleCollector /\ InitTransformer /\ IdleOrchestrator
    /\ IdleTools
SpecBus == InitBusAlone /\ [][NextBus]_vars

\* one writer alone, on a healthy disk
InitWriterAlone ==
    /\ InitWriter /\ InitBus /\ maxsize = 1 /\ IdleCollector /\ InitTransformer
    /\ IdleOrchestrator
    /\ IdleTools
SpecWriter == InitWriterAlone /\ [][NextWriter]_vars

\* the ingestor with the writer of S1, disk faults and an optional bus
InitIngestor ==
    /\ InitCollector /\ jitter_factor = 1
    /\ FreshWriter /\ InitBus /\ maxsize = 1 /\ InitTransformer
    /\ IdleOrchestrator
    /\ IdleTools
SpecCollector == InitIngestor /\ [][NextCollector]_vars

\* the ingestor as the orchestrator runs it: no bus, a task that can be
\* cancelled. Every wait of run_collector ends: websockets.connect and
\* ws.recv() have timeouts and the sleeps are finite.
InitTask ==
    /\ IdleCollector /\ FreshWriter /\ InitBus /\ maxsize = 1 /\ InitTransformer
    /\ IdleOrchestrator
    /\ IdleTools
SpecTask == InitTask /\ [][NextTask]_vars /\ WF_vars(Progress)

\* the aggregator on the raw files of one symbol-day
NextTransformer ==
    TransformSymbolDay /\ BusIdle /\ WriterIdle /\ CollectorIdle /\ OrchestratorIdle
        /\ ToolsIdle
InitTransformerAlone ==
    /\ InitRawDay /\ InitBus /\ maxsize = 1 /\ FreshWriter /\ IdleCollector
    /\ IdleOrchestrator
    /\ IdleTools
SpecTransformer == InitTransformerAlone /\ [][NextTransformer]_vars

\* the macro fetcher: _run_macro_loop and _fetch_macro_data
InitFetcher ==
    /\ Constructed
    /\ started = <<"macro-fetcher">>
    /\ ws = "unstarted" /\ fetcher = "startup"
    /\ tr = "unstarted" /\ hm = "unstarted"
    /\ InitBus /\ maxsize = 1 /\ FreshWriter /\ IdleCollector /\ InitTransformer
    /\ IdleTools
SpecFetcher == InitFetcher /\ [][NextFetcher]_vars

\* the orchestrator with its threads; every key has both bars upstream
InitThreads ==
    /\ InitOrchestrator
    /\ InitBus /\ maxsize = 1 /\ FreshWriter /\ IdleCollector /\ InitTransformer
    /\ IdleTools
    /\ upstream = [k \in TickerSet |-> Timestamps]
SpecOrchestrator == InitThreads /\ [][NextOrchestrator]_vars

\* the orchestrator with its periodic components
SpecSchedule == InitThreads /\ [][NextSchedule]_vars

\* the frames of the three adapters through _consume_ws, with or without a bus
NextAdapter ==
    \/ ConsumeFrame /\ CoreIdle /\ BackfillIdle /\ CompactorIdle
    \/ \E f \in Frames : NextFrame(f) /\ CoreIdle /\ BackfillIdle /\ CompactorIdle
InitFrames ==
    /\ InitAdapter /\ IdleBackfill /\ InitCompactor
    /\ InitCollector /\ jitter_factor = 0
    /\ InitBus /\ maxsize = 1 /\ FreshWriter /\ InitTransformer /\ IdleOrchestrator
SpecAdapter == InitFrames /\ [][NextAdapter]_vars

\* one call of _fetch_klines against every sequence of responses
NextBackfill ==
    \E resp \in Responses, h \in RetryAfters :
        /\ resp = "429" \/ h = NoHeader
        /\ FetchAttempt(resp, h) /\ CoreIdle /\ AdapterIdle /\ CompactorIdle
InitKlines ==
    /\ InitBackfill /\ IdleAdapter /\ InitCompactor
    /\ InitBus /\ maxsize = 1 /\ FreshWriter /\ IdleCollector /\ InitTransformer
    /\ IdleOrchestrator
SpecBackfill == InitKlines /\ [][NextBackfill]_vars

\* aggregator runs adding files to one day partition, and the compactor
NextCompactor ==
    \/ \E name \in FileNames, rows \in RowSets :
          WritePartitionFile(name, rows) /\ CoreIdle /\ AdapterIdle /\ BackfillIdle
    \/ RunCompactor /\ CoreIdle /\ AdapterIdle /\ BackfillIdle
InitPartition ==
    /\ InitCompactor /\ IdleAdapter /\ IdleBackfill
    /\ InitBus /\ maxsize = 1 /\ FreshWriter /\ IdleCollector /\ InitTransformer
    /\ IdleOrchestrator
SpecCompactor == InitPartition /\ [][NextCompactor]_vars

====
